---- MODULE Spec2Model ----
(***************************************************************************)
(* Recession-curve analysis of sbat: the signal cleaner, the limb          *)
(* segmenter, the reservoir fitter, the master-curve builder               *)
(* (src/sbat/recession/recession.py) and the per-gauge, per-decade batch   *)
(* of Model.get_recession_curve (src/sbat/sbat.py).                        *)
(*                                                                         *)
(* Numbers.  Discharges are integers.  A missing value (NaN) is the value  *)
(* NaN below, which lies outside the range of every discharge.  Pearson    *)
(* correlations are integers in units of 1/10000 (9500 is r = 0.95), so    *)
(* the seed r_cor_old = 0.0001 is 1 and min_improvement_ratio = 1.05 is    *)
(* the fraction 105/100.                                                   *)
(*                                                                         *)
(* scipy's curve_fit is not computed: each call of it is an outcome drawn  *)
(* from CurveFitOutcomes (it raises, or it converges and the fitted curve  *)
(* has some correlation with the data).                                    *)
(***************************************************************************)
EXTENDS Integers, Sequences, FiniteSets, TLC

(***************************************************************************)
(* Bounds of the model                                                     *)
(***************************************************************************)
MaxLen == 4          \* longest enumerated input series
MaxQ == 3            \* largest enumerated discharge value
MaxMinLength == 3    \* largest enumerated minimum_recession_curve_length
MaxRequested == 4    \* largest enumerated no_of_partial_sums / maximum_reservoirs
MaxHalfSteps == 4    \* latest time, in half steps, at which the model functions are evaluated
MaxLimbs == 3        \* most limbs of an enumerated limb table
MaxGauges == 3       \* most gauges of an enumerated input table
MaxDecades == 3      \* most decades the enumerated input tables span
MaxCalls == 3        \* most method calls made on one Model

NaN == 0 - 1000000

Values == 1..MaxQ
ValuesNa == Values \cup {NaN}

\* every sequence over S of length 0..n
RECURSIVE SeqsUpTo(_, _)
SeqsUpTo(S, n) ==
    IF n = 0 THEN {<<>>}
    ELSE LET shorter == SeqsUpTo(S, n - 1)
         IN shorter \cup {Append(s, x) : s \in {q \in shorter : Len(q) = n - 1}, x \in S}

\* a pandas Series indexed by time: rows [t, Q], t the position in the input
\* every order in which the elements of a finite set can be taken
OrdersOf(ids) ==
    {order \in [1..Cardinality(ids) -> ids] :
        \A i, j \in 1..Cardinality(ids) : order[i] = order[j] => i = j}

MkSeries(vals) == [i \in 1..Len(vals) |-> [t |-> i, Q |-> vals[i]]]

\* the concrete scenario of the specification's section 8
ScenarioValues == <<10, 9, 8, 7, 8, 9, 10, 9, 8, 7, 6, 5>>

(***************************************************************************)
(* clean_gauge_ts                                                          *)
(***************************************************************************)
isna(x) == x = NaN

\* Series.first_valid_index(): the first position whose value is not missing; 0 is None
first_valid_index(Q) ==
    IF \E i \in 1..Len(Q) : ~isna(Q[i].Q)
    THEN CHOOSE i \in 1..Len(Q) : ~isna(Q[i].Q) /\ \A j \in 1..(i - 1) : isna(Q[j].Q)
    ELSE 0

\* Series.last_valid_index()
last_valid_index(Q) ==
    IF \E i \in 1..Len(Q) : ~isna(Q[i].Q)
    THEN CHOOSE i \in 1..Len(Q) : ~isna(Q[i].Q) /\ \A j \in (i + 1)..Len(Q) : isna(Q[j].Q)
    ELSE 0

LocHalfOpen(Q, first_idx, last_idx) ==
    SubSeq(Q, IF first_idx = 0 THEN 1 ELSE first_idx,
              IF last_idx = 0 THEN Len(Q) ELSE last_idx - 1)

\* Q.loc[first_idx:last_idx]: label slice, both ends included, None is an open end
Loc(Q, first_idx, last_idx) ==
    SubSeq(Q, IF first_idx = 0 THEN 1 ELSE first_idx,
              IF last_idx = 0 THEN Len(Q) ELSE last_idx)

\* Q.isna().sum()
isna_sum(Q) == Cardinality({i \in 1..Len(Q) : isna(Q[i].Q)})

clean_gauge_ts(Q) ==
    LET first_idx == first_valid_index(Q)
        last_idx == last_valid_index(Q)
        Qs == Loc(Q, first_idx, last_idx)
    IN IF isna_sum(Qs) = Len(Qs)
       THEN [raised |-> "ValueError", Q |-> <<>>]
       ELSE [raised |-> "none", Q |-> Qs]

(***************************************************************************)
(* find_recession_limbs                                                    *)
(***************************************************************************)
round_up_to_odd_next(f) == ((f + 1) \div 2) * 2 + 1

\* np.ceil(f) // 2 * 2 + 1 for an integer f
round_up_to_odd(f) == (f \div 2) * 2 + 1

PolyOrder == 2

\* savgol_filter(x, window_length, 2), mode 'interp'.  scipy refuses a polynomial
\* order that is not below the window, and a window longer than the data.  The
\* only window the model enumerates that scipy accepts is 3, where the local
\* quadratic passes through its three points: the filter returns its input.
savgol_filter(Q, window_length) ==
    IF PolyOrder >= window_length \/ window_length > Len(Q)
    THEN [raised |-> "ValueError", Q |-> <<>>]
    ELSE [raised |-> "none", Q |-> Q]

\* a variant that takes a repeated value for a falling one
diff_flat_falls(Q, i) ==
    IF i = 1 \/ isna(Q[i].Q) \/ isna(Q[i - 1].Q) THEN 0
    ELSE IF Q[i].Q <= Q[i - 1].Q THEN 0 - 1 ELSE 1

\* Q.diff().fillna(0), then < 0 set to -1 and > 0 set to 1: row i's sign class
diff(Q, i) ==
    LET d == IF i = 1 \/ isna(Q[i].Q) \/ isna(Q[i - 1].Q) THEN 0 ELSE Q[i].Q - Q[i - 1].Q
    IN IF d < 0 THEN 0 - 1 ELSE IF d > 0 THEN 1 ELSE 0

section_id_at_falls(Q, i) ==
    Cardinality({j \in 1..i : j = 1 \/ (diff(Q, j) # diff(Q, j - 1) /\ diff(Q, j) = 0 - 1)})

\* (~(Q['diff'] == Q['diff'].shift(1))).cumsum(): the first row always counts
section_id(Q, i) ==
    Cardinality({j \in 1..i : j = 1 \/ diff(Q, j) # diff(Q, j - 1)})

\* the rows of the frame after the sign class and the section id are set
WithSections(Q) ==
    [i \in 1..Len(Q) |-> [t |-> Q[i].t, Q |-> Q[i].Q,
                          diff |-> diff(Q, i), section_id |-> section_id(Q, i)]]

IsNotRising(row) == row.diff <= 0

\* Q[Q['diff'] == -1]
IsFalling(row) == row.diff = 0 - 1

\* Q.groupby('section_id').size()
section_length(rows, sid) == Cardinality({i \in 1..Len(rows) : rows[i].section_id = sid})

LongerThan(len, minimum_recession_curve_length) == len > minimum_recession_curve_length

\* Q['section_length'] >= minimum_recession_curve_length
LongEnough(len, minimum_recession_curve_length) == len >= minimum_recession_curve_length

cumcount_from_one(rows, i) ==
    Cardinality({j \in 1..i : rows[j].section_id = rows[i].section_id})

\* Q.groupby('section_id').cumcount()
cumcount(rows, i) ==
    Cardinality({j \in 1..(i - 1) : rows[j].section_id = rows[i].section_id})

SectionIds(rows) == {rows[i].section_id : i \in 1..Len(rows)}

\* Q[['Q','section_id']].groupby('section_id').max()
RECURSIVE SetMax(_)
SetMax(S) ==
    LET x == CHOOSE y \in S : TRUE
    IN IF S = {x} THEN x
       ELSE LET m == SetMax(S \ {x}) IN IF x > m THEN x ELSE m

RECURSIVE SetMin(_)
SetMin(S) ==
    LET x == CHOOSE y \in S : TRUE
    IN IF S = {x} THEN x
       ELSE LET m == SetMin(S \ {x}) IN IF x < m THEN x ELSE m

group_max(rows, sid) == SetMax({rows[i].Q : i \in {j \in 1..Len(rows) : rows[j].section_id = sid}})

\* Series.replace(scalar) with no value: every entry equal to the scalar takes the
\* last earlier entry that differs from it, and stays as it is when there is none
replace_pad(col, scalar, i) ==
    IF col[i] # scalar THEN col[i]
    ELSE LET prev == {j \in 1..(i - 1) : col[j] # scalar}
         IN IF prev = {} THEN col[i] ELSE col[SetMax(prev)]

\* Q['Q0'] = Q['section_id'].replace(Q0), Q0 the squeezed table of the group maxima:
\* with two or more sections Q0 is a Series and replace maps each section id to
\* its maximum; with exactly one section squeeze() yields a scalar and replace
\* pads the entries equal to it
Q0_column(rows, i) ==
    IF Cardinality(SectionIds(rows)) = 1
    THEN replace_pad([j \in 1..Len(rows) |-> rows[j].section_id],
                     group_max(rows, rows[1].section_id), i)
    ELSE group_max(rows, rows[i].section_id)

find_recession_limbs(Q, smooth_window_size, minimum_recession_curve_length) ==
    LET cleaned == clean_gauge_ts(Q)
        window == IF smooth_window_size > 0 THEN round_up_to_odd(smooth_window_size) ELSE 0
        smoothed == IF smooth_window_size > 0 /\ cleaned.raised = "none"
                    THEN savgol_filter(cleaned.Q, window)
                    ELSE cleaned
        sections == WithSections(smoothed.Q)
        falling == SelectSeq(sections, IsFalling)
        long == SelectSeq(falling,
                    LAMBDA row : LongEnough(section_length(falling, row.section_id),
                                            minimum_recession_curve_length))
        limbs == [i \in 1..Len(long) |->
                    [t |-> long[i].t, Q |-> long[i].Q, diff |-> long[i].diff,
                     section_id |-> long[i].section_id,
                     section_length |-> section_length(falling, long[i].section_id),
                     section_time |-> cumcount(long, i),
                     Q0 |-> Q0_column(long, i)]]
    IN IF smoothed.raised # "none"
       THEN [raised |-> smoothed.raised, window |-> window, sections |-> <<>>, Q |-> <<>>]
       ELSE [raised |-> "none", window |-> window, sections |-> sections, Q |-> limbs]

(***************************************************************************)
(* The model functions and their inverses                                  *)
(*                                                                         *)
(* Their arguments and values are real numbers.  The model computes with   *)
(* the numbers c * exp(e), c and e rational, exactly; a value that is not  *)
(* of this form (the root of a number that is no square, the logarithm of  *)
(* a number with c # 1) is marked as not exact.                            *)
(***************************************************************************)
Abs(x) == IF x < 0 THEN 0 - x ELSE x

RECURSIVE GCD(_, _)
GCD(a, b) == IF b = 0 THEN a ELSE GCD(b, a % b)

\* the rational num/den, den # 0, in lowest terms with a positive denominator
Rat(num, den) ==
    LET g == GCD(Abs(num), Abs(den))
        sgn == IF den < 0 THEN 0 - 1 ELSE 1
    IN [num |-> sgn * (num \div g), den |-> sgn * (den \div g)]

RAdd(a, b) == Rat(a.num * b.den + b.num * a.den, a.den * b.den)
RSub(a, b) == Rat(a.num * b.den - b.num * a.den, a.den * b.den)
RMul(a, b) == Rat(a.num * b.num, a.den * b.den)
RDiv(a, b) == Rat(a.num * b.den, a.den * b.num)
RLess(a, b) == a.num * b.den < b.num * a.den

IsSquare(k) == \E j \in 0..k : j * j = k
Root(k) == CHOOSE j \in 0..k : j * j = k

\* the number c * exp(e)
Num(c, e) == [c |-> c, e |-> e, exact |-> TRUE]
Inexact == [c |-> Rat(0, 1), e |-> Rat(0, 1), exact |-> FALSE]
Real(num, den) == Num(Rat(num, den), Rat(0, 1))

IsRational(a) == a.exact /\ a.e = Rat(0, 1)

add(a, b) == IF IsRational(a) /\ IsRational(b) THEN Num(RAdd(a.c, b.c), Rat(0, 1)) ELSE Inexact
subtract(a, b) == IF IsRational(a) /\ IsRational(b) THEN Num(RSub(a.c, b.c), Rat(0, 1)) ELSE Inexact
negative(a) == IF a.exact THEN Num(RSub(Rat(0, 1), a.c), a.e) ELSE Inexact
multiply(a, b) == IF a.exact /\ b.exact THEN Num(RMul(a.c, b.c), RAdd(a.e, b.e)) ELSE Inexact
np_divide(a, b) ==
    IF a.exact /\ b.exact /\ b.c.num # 0 THEN Num(RDiv(a.c, b.c), RSub(a.e, b.e)) ELSE Inexact

\* np.power(a, 2)
np_power2(a) == multiply(a, a)

\* np.exp(a), a rational
np_exp(a) == IF IsRational(a) THEN Num(Rat(1, 1), a.c) ELSE Inexact

\* np.sqrt(a)
np_sqrt(a) ==
    IF a.exact /\ a.c.num >= 0 /\ IsSquare(a.c.num) /\ IsSquare(a.c.den)
    THEN Num(Rat(Root(a.c.num), Root(a.c.den)), RDiv(a.e, Rat(2, 1)))
    ELSE Inexact

\* np.log(a)
np_log(a) == IF a.exact /\ a.c = Rat(1, 1) THEN Num(a.e, Rat(0, 1)) ELSE Inexact

\* Q_0/np.power((1+n*x),2)
boussinesq_1(x, Q_0, n) == np_divide(Q_0, np_power2(add(Real(1, 1), multiply(n, x))))

\* Q_0*np.exp(-n*x)
maillet_1(x, Q_0, n) == multiply(Q_0, np_exp(multiply(negative(n), x)))

\* np.divide(np.sqrt(Q_0/Q),n)-np.divide(1,n)
boussinesq_inv(Q, Q_0, n) ==
    subtract(np_divide(np_sqrt(np_divide(Q_0, Q)), n), np_divide(Real(1, 1), n))

maillet_inv_swapped(Q, Q_0, n) == np_divide(np_log(np_divide(Q, Q_0)), n)

\* np.log(Q_0/Q)/n
maillet_inv(Q, Q_0, n) == np_divide(np_log(np_divide(Q_0, Q)), n)

\* globals()[recession_algorithm+'_1']
model_function_1(recession_algorithm, x, Q_0, n) ==
    IF recession_algorithm = "boussinesq" THEN boussinesq_1(x, Q_0, n)
    ELSE maillet_1(x, Q_0, n)

\* inv_func=globals()[recession_algorithm+'_inv']
inv_func(recession_algorithm, Q, Q_0, n) ==
    IF recession_algorithm = "boussinesq" THEN boussinesq_inv(Q, Q_0, n)
    ELSE maillet_inv(Q, Q_0, n)

(***************************************************************************)
(* fit_reservoir_function                                                  *)
(***************************************************************************)
max_sums == 3

\* r_cor_old = 0.0001, in units of 1/10000
r_cor_old_seed == 1

\* min_improvement_ratio = 1.05, in hundredths
min_improvement_ratio == 105

\* the model functions and inverse functions that globals() holds
model_functions == {"boussinesq", "maillet"}

\* what one call of curve_fit can do: raise (ok = FALSE), or return parameters
\* whose curve has correlation r with the data (np.corrcoef yields NaN when
\* either of the two has no variance)
CurveFitOutcome(ok, r) == [ok |-> ok, r |-> r]

\* abs(r_cor/r_cor_old) < min_improvement_ratio.  A comparison with NaN is
\* False; r_cor_old = 0 gives a quotient of inf or NaN, which is not below
\* the ratio either.
no_improvement(r_cor, r_cor_old) ==
    IF isna(r_cor) \/ isna(r_cor_old) \/ r_cor_old = 0 THEN FALSE
    ELSE Abs(r_cor) * 100 < min_improvement_ratio * Abs(r_cor_old)

\* if reservoirs > no_of_partial_sums: continue
skip_model(reservoirs, no_of_partial_sums) == reservoirs > no_of_partial_sums

\* if no_of_partial_sums > 3: no_of_partial_sums = max_sums
reduce_to_max(no_of_partial_sums) ==
    IF no_of_partial_sums > 3 THEN max_sums ELSE no_of_partial_sums

\* the bounds of every initial-flow parameter, in units of 1/10000
Q_0_bounds(Q_0, constant_Q_0, no_of_partial_sums) ==
    IF constant_Q_0 /\ no_of_partial_sums = 1
    THEN [Q_0_min |-> Q_0 * 9999, Q_0_max |-> Q_0 * 10001]
    ELSE [Q_0_min |-> 10, Q_0_max |-> 10000000]

empty_output == [empty |-> TRUE, reservoirs |-> 0, r_cor |-> NaN]

\* one curve_fit call and what follows it: the entry of the log of fits
fit_entry(reservoirs, bnds, r_cor_old, res) ==
    [terms |-> reservoirs + 1, Q_0_min |-> bnds.Q_0_min, Q_0_max |-> bnds.Q_0_max,
     r_cor_old |-> r_cor_old, ok |-> res.ok, r_cor |-> res.r,
     accepted |-> res.ok /\ ~no_improvement(res.r, r_cor_old)]

\* the loop over range(0, max_sums), from iteration `reservoirs` on; cf[k] is
\* what curve_fit does when it is called on the k-term model
RECURSIVE fit_loop(_, _, _, _, _, _, _, _)
fit_loop(reservoirs, no_of_partial_sums, recession_algorithm, bnds, cf, r_cor_old, output, fits) ==
    IF reservoirs >= max_sums
    THEN [raised |-> "none", output |-> output, fits |-> fits]
    ELSE IF skip_model(reservoirs, no_of_partial_sums)
    THEN fit_loop(reservoirs + 1, no_of_partial_sums, recession_algorithm, bnds, cf,
                  r_cor_old, output, fits)
    ELSE IF recession_algorithm \notin model_functions
    THEN [raised |-> "KeyError", output |-> output, fits |-> fits]
    ELSE IF ~cf[reservoirs + 1].ok
    THEN [raised |-> "RuntimeError", output |-> output,
          fits |-> Append(fits, fit_entry(reservoirs, bnds, r_cor_old, cf[reservoirs + 1]))]
    ELSE IF no_improvement(cf[reservoirs + 1].r, r_cor_old)
    THEN [raised |-> "none", output |-> output,
          fits |-> Append(fits, fit_entry(reservoirs, bnds, r_cor_old, cf[reservoirs + 1]))]
    ELSE fit_loop(reservoirs + 1, no_of_partial_sums, recession_algorithm, bnds, cf,
                  cf[reservoirs + 1].r,
                  [empty |-> FALSE, reservoirs |-> reservoirs + 1,
                   r_cor |-> cf[reservoirs + 1].r],
                  Append(fits, fit_entry(reservoirs, bnds, r_cor_old, cf[reservoirs + 1])))

\* the return of fit_reservoir_function
fit_result(res, no_of_partial_sums) ==
    [raised |-> res.raised, output |-> res.output, fits |-> res.fits,
     no_of_partial_sums |-> no_of_partial_sums]

fit_reservoir_function_rejecting(Q_0, constant_Q_0, no_of_partial_sums, recession_algorithm, cf) ==
    IF no_of_partial_sums > max_sums
    THEN [raised |-> "ValueError", output |-> empty_output, fits |-> <<>>,
          no_of_partial_sums |-> no_of_partial_sums]
    ELSE fit_result(fit_loop(0, no_of_partial_sums, recession_algorithm,
                             Q_0_bounds(Q_0, constant_Q_0, no_of_partial_sums), cf,
                             r_cor_old_seed, empty_output, <<>>),
                    no_of_partial_sums)

\* raised: the exception that leaves the function ("none": it returns output);
\* fits: the calls of curve_fit made, in order; no_of_partial_sums: the
\* request after the reduction to max_sums
fit_reservoir_function(Q_0, constant_Q_0, no_of_partial_sums, recession_algorithm, cf) ==
    fit_result(fit_loop(0, reduce_to_max(no_of_partial_sums), recession_algorithm,
                        Q_0_bounds(Q_0, constant_Q_0, reduce_to_max(no_of_partial_sums)), cf,
                        r_cor_old_seed, empty_output, <<>>),
               reduce_to_max(no_of_partial_sums))

(***************************************************************************)
(* analyse_recession_curves                                                *)
(*                                                                         *)
(* Every stage takes the outcomes of the curve_fit calls it makes as a     *)
(* sequence of functions cf, one per call of fit_reservoir_function, and   *)
(* yields `raised`, the exception that leaves it ("none": it completes).   *)
(***************************************************************************)
\* mrc_out = (nan, nan, nan)
mrc_missing == [missing |-> TRUE, reservoirs |-> 0, r_mrc |-> NaN]

RECURSIVE SortedSeq(_)
SortedSeq(S) == IF S = {} THEN <<>> ELSE <<SetMin(S)>> \o SortedSeq(S \ {SetMin(S)})

\* Q.groupby('section_id'): the section ids in ascending order
groupby_section_id(rows) == SortedSeq(SectionIds(rows))

limb_rows(rows, sid) == SelectSeq(rows, LAMBDA row : row.section_id = sid)

\* the columns the fit adds to the rows of one limb
annotate(row, output) ==
    [t |-> row.t, Q |-> row.Q, diff |-> row.diff, section_id |-> row.section_id,
     section_length |-> row.section_length, section_time |-> row.section_time,
     Q0 |-> row.Q0, reservoirs |-> output.reservoirs, section_corr |-> output.r_cor]

\* a, b, c, d = output: an empty tuple cannot be unpacked
unpack(res) ==
    IF res.raised # "none" THEN res.raised
    ELSE IF res.output.empty THEN "ValueError"
    ELSE "none"

\* one call of fit_reservoir_function as the log of calls records it
fit_call(sid, stage, res) == [section_id |-> sid, stage |-> stage, res |-> res]

\* for _, limb in Q.groupby('section_id'): fit, annotate, concat; from the i-th
\* section on.  An exception of a fit leaves the loop and the function.
RECURSIVE fit_limbs(_, _, _, _, _, _, _)
RECURSIVE fit_limb(_, _, _, _, _, _, _, _, _)
fit_limb(i, rows, recession_algorithm, maximum_reservoirs, cfs, limb_sections, calls, limb, res) ==
    IF unpack(res) # "none"
    THEN [raised |-> unpack(res), Q |-> <<>>,
          calls |-> Append(calls, fit_call(limb[1].section_id, "limb", res))]
    ELSE fit_limbs(i + 1, rows, recession_algorithm, maximum_reservoirs, cfs,
                   limb_sections \o [k \in 1..Len(limb) |-> annotate(limb[k], res.output)],
                   Append(calls, fit_call(limb[1].section_id, "limb", res)))

fit_limbs(i, rows, recession_algorithm, maximum_reservoirs, cfs, limb_sections, calls) ==
    IF i > Len(groupby_section_id(rows))
    THEN [raised |-> "none", Q |-> limb_sections, calls |-> calls]
    ELSE fit_limb(i, rows, recession_algorithm, maximum_reservoirs, cfs, limb_sections, calls,
                  limb_rows(rows, groupby_section_id(rows)[i]),
                  fit_reservoir_function(limb_rows(rows, groupby_section_id(rows)[i])[1].Q0,
                                         TRUE, maximum_reservoirs, recession_algorithm, cfs[i]))

\* sections ordered by Q0, the highest first; sections of equal Q0 stay in the
\* order of their ids
first_of_order(rows, ids, top) == SetMin({sid \in ids : limb_rows(rows, sid)[1].Q0 = top})

RECURSIVE section_order(_, _)
section_order(rows, ids) ==
    IF ids = {} THEN <<>>
    ELSE LET first == first_of_order(rows, ids,
                          SetMax({limb_rows(rows, sid)[1].Q0 : sid \in ids}))
         IN <<first>> \o section_order(rows, ids \ {first})

\* mrc_algorithm == 'matching_strip': one fit per section, each of one requested
\* term with Q_0 fixed to the Q0 of the first section; r_merged is the
\* correlation of the last fitted curve with Q_data that line 411 computes
RECURSIVE matching_strip(_, _, _, _, _, _, _, _)
RECURSIVE matching_strip_fit(_, _, _, _, _, _, _, _)
matching_strip_fit(i, order, rows, recession_algorithm, cfs, r_merged, calls, res) ==
    IF unpack(res) # "none"
    THEN [raised |-> unpack(res), mrc_out |-> mrc_missing,
          calls |-> Append(calls, fit_call(order[i], "matching_strip", res))]
    ELSE matching_strip(i + 1, order, rows, recession_algorithm, cfs, r_merged,
                        res.output, Append(calls, fit_call(order[i], "matching_strip", res)))

matching_strip(i, order, rows, recession_algorithm, cfs, r_merged, last, calls) ==
    IF i > Len(order)
    THEN [raised |-> "none",
          mrc_out |-> [missing |-> FALSE, reservoirs |-> last.reservoirs,
                       r_mrc |-> r_merged],
          calls |-> calls]
    ELSE matching_strip_fit(i, order, rows, recession_algorithm, cfs, r_merged, calls,
             fit_reservoir_function(limb_rows(rows, order[1])[1].Q0, TRUE, 1,
                                    recession_algorithm, cfs[i]))

\* Q['Q0'].mean(), rounded down to the integers of the model
Q0_mean(rows) ==
    LET RECURSIVE Sum(_)
        Sum(k) == IF k = 0 THEN 0 ELSE rows[k].Q0 + Sum(k - 1)
    IN Sum(Len(rows)) \div Len(rows)

\* Q['Q0'].max()
Q0_max(rows) == SetMax({rows[k].Q0 : k \in 1..Len(rows)})

\* mrc_algorithm == 'demuth': a free fit of the pooled rows, then the fit of the
\* shifted rows with Q_0 fixed to Q0_max
demuth_final(init, final) ==
    IF unpack(final) # "none"
    THEN [raised |-> unpack(final), mrc_out |-> mrc_missing,
          calls |-> <<fit_call(0, "demuth_init", init), fit_call(0, "demuth_final", final)>>]
    ELSE [raised |-> "none",
          mrc_out |-> [missing |-> FALSE, reservoirs |-> final.output.reservoirs,
                       r_mrc |-> final.output.r_cor],
          calls |-> <<fit_call(0, "demuth_init", init), fit_call(0, "demuth_final", final)>>]

demuth_init(rows, recession_algorithm, cfs, init) ==
    IF unpack(init) # "none"
    THEN [raised |-> unpack(init), mrc_out |-> mrc_missing,
          calls |-> <<fit_call(0, "demuth_init", init)>>]
    ELSE demuth_final(init, fit_reservoir_function(Q0_max(rows), TRUE, 1,
                                                   recession_algorithm, cfs[2]))

demuth(rows, recession_algorithm, cfs) ==
    demuth_init(rows, recession_algorithm, cfs,
                fit_reservoir_function(Q0_mean(rows), FALSE, 1, recession_algorithm, cfs[1]))

\* lines 361-460: the inverse function is looked up by name, then the branch of
\* the master-curve algorithm runs; any other name runs no branch
master_curve(rows, mrc_algorithm, recession_algorithm, cfs, r_merged) ==
    IF recession_algorithm \notin model_functions
    THEN [raised |-> "KeyError", mrc_out |-> mrc_missing, calls |-> <<>>]
    ELSE IF mrc_algorithm = "matching_strip"
    THEN matching_strip(1, section_order(rows, SectionIds(rows)), rows,
                        recession_algorithm, cfs, r_merged, empty_output, <<>>)
    ELSE IF mrc_algorithm = "demuth"
    THEN demuth(rows, recession_algorithm, cfs)
    ELSE [raised |-> "none", mrc_out |-> mrc_missing, calls |-> <<>>]

\* the whole function; cfs1 serves the fits of the limbs, cfs2 those of the
\* master curve.  The tuple handed back has `arity` elements.
analyse_return(fitted, mrc) ==
    IF mrc.raised # "none"
    THEN [raised |-> mrc.raised, arity |-> 0, Q |-> <<>>, mrc_out |-> mrc_missing,
          calls |-> fitted.calls \o mrc.calls]
    ELSE [raised |-> "none", arity |-> 2, Q |-> fitted.Q, mrc_out |-> mrc.mrc_out,
          calls |-> fitted.calls \o mrc.calls]

analyse_fitted(fitted, mrc_algorithm, recession_algorithm, cfs2, r_merged) ==
    IF fitted.raised # "none"
    THEN [raised |-> fitted.raised, arity |-> 0, Q |-> <<>>, mrc_out |-> mrc_missing,
          calls |-> fitted.calls]
    ELSE analyse_return(fitted, master_curve(fitted.Q, mrc_algorithm, recession_algorithm,
                                             cfs2, r_merged))

analyse_found(found, mrc_algorithm, recession_algorithm, maximum_reservoirs, cfs1, cfs2, r_merged) ==
    IF found.raised # "none"
    THEN [raised |-> found.raised, arity |-> 0, Q |-> <<>>, mrc_out |-> mrc_missing,
          calls |-> <<>>]
    ELSE IF Len(found.Q) = 0
    THEN [raised |-> "none", arity |-> 2, Q |-> <<>>, mrc_out |-> mrc_missing,
          calls |-> <<>>]
    ELSE analyse_fitted(fit_limbs(1, found.Q, recession_algorithm, maximum_reservoirs, cfs1,
                                  <<>>, <<>>),
                        mrc_algorithm, recession_algorithm, cfs2, r_merged)

analyse_recession_curves(Q, mrc_algorithm, recession_algorithm, smooth_window_size, minimum_recession_curve_length, maximum_reservoirs, cfs1, cfs2, r_merged) ==
    analyse_found(find_recession_limbs(Q, smooth_window_size, minimum_recession_curve_length),
                  mrc_algorithm, recession_algorithm, maximum_reservoirs,
                  cfs1, cfs2, r_merged)

(***************************************************************************)
(* The data of the master curve: lines 366-456 when every fit succeeds     *)
(*                                                                         *)
(* rows are the rows of the limb table, with Q and Q0 numbers c * exp(e).  *)
(* A fit yields fit_parameter = (Q_0, n): Q_0 is the fixed initial flow    *)
(* (the bounds keep it within 0.01 % of it), n is what curve_fit finds,    *)
(* rates[i] for the i-th fit.  A point of a series is [t, obs], obs the    *)
(* observation [section_id, section_time, Q] whose value it holds.         *)
(***************************************************************************)
\* a < b for two rationals or two numbers exp(e)
NumLess(a, b) == IF a.e = b.e THEN RLess(a.c, b.c) ELSE RLess(a.e, b.e)

observation(row) == [section_id |-> row.section_id, section_time |-> row.section_time, Q |-> row.Q]

\* limb.set_index('section_time')['Q'] after section_time += t_shift
shifted(limb, t_shift) ==
    [k \in 1..Len(limb) |->
        [t |-> add(Real(limb[k].section_time, 1), t_shift), obs |-> observation(limb[k])]]

\* pd.Series(Q_data, index): the k-th value with the k-th time
paired(Q_data, index) == [k \in 1..Len(Q_data) |-> [t |-> index[k], obs |-> Q_data[k]]]

\* sort_index(): by time; points of equal time keep their order
RECURSIVE insert_sorted(_, _)
insert_sorted(sorted, point) ==
    IF sorted = <<>> THEN <<point>>
    ELSE IF NumLess(point.t, sorted[Len(sorted)].t)
    THEN Append(insert_sorted(SubSeq(sorted, 1, Len(sorted) - 1), point), sorted[Len(sorted)])
    ELSE Append(sorted, point)

RECURSIVE sort_index(_)
sort_index(points) ==
    IF points = <<>> THEN <<>>
    ELSE insert_sorted(sort_index(SubSeq(points, 1, Len(points) - 1)), points[Len(points)])

index_of(points) == [k \in 1..Len(points) |-> points[k].t]
values_of(points) == [k \in 1..Len(points) |-> points[k].obs]

\* Q.groupby('section_id')['Q0'].max().sort_values(ascending=False): the section
\* of the largest Q0 first, sections of equal Q0 in the order of their ids
largest_Q0(rows, ids) ==
    CHOOSE sid \in ids :
        \A other \in ids :
            /\ ~NumLess(limb_rows(rows, sid)[1].Q0, limb_rows(rows, other)[1].Q0)
            /\ limb_rows(rows, other)[1].Q0 = limb_rows(rows, sid)[1].Q0 => sid <= other

RECURSIVE sort_values_descending(_, _)
sort_values_descending(rows, ids) ==
    IF ids = {} THEN <<>>
    ELSE <<largest_Q0(rows, ids)>>
         \o sort_values_descending(rows, ids \ {largest_Q0(rows, ids)})

\* one pass of the loop of matching_strip for a limb after the first: the shift
\* from the fit parameters at hand, the merge, the new fit, the longer Q_data
merge_step(limb, fit_parameter, t_shift, df_merged, n) ==
    [section_id |-> limb[1].section_id,
     Q |-> limb[1].Q0, Q_0 |-> fit_parameter.Q_0, n |-> fit_parameter.n,
     t_shift |-> t_shift,
     df_merged |-> df_merged,
     fit_parameter |-> [Q_0 |-> fit_parameter.Q_0, n |-> n]]

RECURSIVE merge_limbs(_, _, _, _, _, _, _, _, _)
merge_sorted(i, order, rows, recession_algorithm, rates, fit_parameter, Q_data, limb, t_shift, df_merged, steps) ==
    merge_limbs(i + 1, order, rows, recession_algorithm, rates,
                [Q_0 |-> fit_parameter.Q_0, n |-> rates[i]],
                Q_data \o values_of(shifted(limb, Real(0, 1))),
                index_of(df_merged),
                Append(steps, merge_step(limb, fit_parameter, t_shift, df_merged, rates[i])))

merge_shifted(i, order, rows, recession_algorithm, rates, fit_parameter, Q_data, index, limb, t_shift, steps) ==
    merge_sorted(i, order, rows, recession_algorithm, rates, fit_parameter, Q_data, limb, t_shift,
                 sort_index(paired(Q_data, index) \o shifted(limb, t_shift)), steps)

\* a variant that shifts every limb onto the curve of the first fit
merge_limbs_fixed(i, order, rows, recession_algorithm, rates, fit_parameter, Q_data, index, steps) ==
    IF i > Len(order)
    THEN [order |-> order, steps |-> steps, final |-> paired(Q_data, index)]
    ELSE merge_shifted(i, order, rows, recession_algorithm, rates, fit_parameter, Q_data, index,
             limb_rows(rows, order[i]),
             inv_func(recession_algorithm, limb_rows(rows, order[i])[1].Q0,
                      steps[1].fit_parameter.Q_0, steps[1].fit_parameter.n),
             steps)

\* lines 372-411: the loop from its i-th pass on, and the frame of the final
\* correlation, df_rec_merged with the column Q_data
merge_limbs(i, order, rows, recession_algorithm, rates, fit_parameter, Q_data, index, steps) ==
    IF i > Len(order)
    THEN [order |-> order, steps |-> steps, final |-> paired(Q_data, index)]
    ELSE merge_shifted(i, order, rows, recession_algorithm, rates, fit_parameter, Q_data, index,
             limb_rows(rows, order[i]),
             inv_func(recession_algorithm, limb_rows(rows, order[i])[1].Q0,
                      fit_parameter.Q_0, fit_parameter.n),
             steps)

\* the first pass (initDf): the fit of the first limb of the order, with Q_0
\* its Q0; its step has no shift
first_step(limb, n) ==
    [section_id |-> limb[1].section_id,
     Q |-> limb[1].Q0, Q_0 |-> limb[1].Q0, n |-> n,
     t_shift |-> Real(0, 1),
     df_merged |-> shifted(limb, Real(0, 1)),
     fit_parameter |-> [Q_0 |-> limb[1].Q0, n |-> n]]

matching_strip_from(order, rows, recession_algorithm, rates, first) ==
    merge_limbs(2, order, rows, recession_algorithm, rates, first.fit_parameter,
                values_of(first.df_merged), index_of(first.df_merged), <<first>>)

matching_strip_ordered(order, rows, recession_algorithm, rates) ==
    matching_strip_from(order, rows, recession_algorithm, rates,
                        first_step(limb_rows(rows, order[1]), rates[1]))

\* lines 366-411
matching_strip_data(rows, recession_algorithm, rates) ==
    matching_strip_ordered(sort_values_descending(rows, SectionIds(rows)), rows,
                           recession_algorithm, rates)

\* Q['Q0'].max() of numbers
Q0_max_of(rows) ==
    rows[CHOOSE k \in 1..Len(rows) : \A j \in 1..Len(rows) : ~NumLess(rows[k].Q0, rows[j].Q0)].Q0

\* a variant that shifts each limb onto the curve starting at the limb before
RECURSIVE demuth_append_chained(_, _, _, _, _, _)
demuth_append_chained(i, order, rows, recession_algorithm, anchor, n) ==
    IF i > Len(order) THEN <<>>
    ELSE shifted(limb_rows(rows, order[i]),
                 inv_func(recession_algorithm, limb_rows(rows, order[i])[1].Q0, anchor, n))
         \o demuth_append_chained(i + 1, order, rows, recession_algorithm,
                                  limb_rows(rows, order[i])[1].Q0, n)

\* lines 438-442: the limbs, in the order given, each shifted by the time at
\* which the curve of initial flow anchor (Q0_max) and rate n passes its Q0
RECURSIVE demuth_append(_, _, _, _, _, _)
demuth_append(i, order, rows, recession_algorithm, anchor, n) ==
    IF i > Len(order) THEN <<>>
    ELSE shifted(limb_rows(rows, order[i]),
                 inv_func(recession_algorithm, limb_rows(rows, order[i])[1].Q0, anchor, n))
         \o demuth_append(i + 1, order, rows, recession_algorithm, anchor, n)

\* lines 416-445: the pooled, sorted series the final fit is made on; rates[1]
\* is the rate of the initial fit, order the order in which the limbs are taken
demuth_data(rows, order, recession_algorithm, rates) ==
    [order |-> order,
     df_merged |-> sort_index(demuth_append(1, order, rows, recession_algorithm,
                                            Q0_max_of(rows), rates[1]))]

\* the bounds of the initial flow (lines 166-171) for a real Q_0
Q_0_bounds_of(Q_0, constant_Q_0, no_of_partial_sums) ==
    IF constant_Q_0 /\ no_of_partial_sums = 1
    THEN [Q_0_min |-> multiply(Q_0, Real(9999, 10000)),
          Q_0_max |-> multiply(Q_0, Real(10001, 10000))]
    ELSE [Q_0_min |-> Real(1, 1000), Q_0_max |-> Real(1000, 1)]

\* lines 447-453: the fit of the pooled series, with Q0_max, constant_Q_0=True
\* and no_of_partial_sums=1; cf is what its curve_fit calls do
demuth_final_fit(rows, recession_algorithm, cf) ==
    fit_result(fit_loop(0, reduce_to_max(1), recession_algorithm,
                        Q_0_bounds_of(Q0_max_of(rows), TRUE, reduce_to_max(1)), cf,
                        r_cor_old_seed, empty_output, <<>>),
               reduce_to_max(1))

\* lines 416-456
demuth_return(data, final) ==
    [order |-> data.order, df_merged |-> data.df_merged, final |-> final]

(***************************************************************************)
(* Model.get_recession_curve, for curve_type 'hydrograph' and flow_type    *)
(* 'discharge': the loop over the decades and the gauges of gauge_ts       *)
(***************************************************************************)
\* the parameters of analyse_recession_curves (recession.py)
analyse_parameters ==
    {"Q", "mrc_algorithm", "recession_algorithm", "smooth_window_size",
     "minimum_recession_curve_length", "define_falling_limb_intervals",
     "maximum_reservoirs"}

\* the keywords get_recession_curve passes to it (sbat.py)
keywords_passed ==
    {"mrc_algorithm", "recession_algorithm", "smooth_window_size",
     "minimum_recession_curve_length", "maximum_reservoirs", "minimum_limbs",
     "inflection_split"}

\* Python binds the call only if every keyword names a parameter
call_binds == keywords_passed \subseteq analyse_parameters

\* Q['decade']: the decade of each time step when compute_each_decade is set
\* (the first `split` time steps lie in decade 1, the others in decade 2),
\* and -9999 otherwise
decade_of(cfg, i) ==
    IF cfg.compute_each_decade THEN (IF i <= cfg.split THEN 1 ELSE 2) ELSE 0 - 9999

decades(cfg, n) == SortedSeq({decade_of(cfg, i) : i \in 1..n})

\* the rows of one gauge in one decade
decade_rows(cfg, col, decade) ==
    SelectSeq(MkSeries(col.Q), LAMBDA row : decade_of(cfg, row.t) = decade)

\* for decade, Q_decade in Q.groupby('decade'): dropna(axis=1, how='all'), then
\* for gauge in Q_decade.columns: the units of the batch in the order of the loop
RECURSIVE units_of_decade(_, _, _, _)
units_of_decade(cfg, cols, decade, k) ==
    IF k > Len(cols) THEN <<>>
    ELSE LET rows == decade_rows(cfg, cols[k], decade)
         IN (IF \A i \in 1..Len(rows) : isna(rows[i].Q) THEN <<>>
             ELSE <<[decade |-> decade, gauge |-> cols[k].gauge, Q |-> rows]>>)
            \o units_of_decade(cfg, cols, decade, k + 1)

RECURSIVE units_from(_, _, _, _)
units_from(cfg, cols, ds, d) ==
    IF d > Len(ds) THEN <<>>
    ELSE units_of_decade(cfg, cols, ds[d], 1) \o units_from(cfg, cols, ds, d + 1)

all_units(cfg, cols, n) == units_from(cfg, cols, decades(cfg, n), 1)

\* one pass of the loop body for `unit`: what the call of analyse_recession_curves
\* and the statements after it do.  outcome "raised" ends get_recession_curve
\* with `error`; "skipped" is the continue of line 376; "appended" adds one
\* entry to each of metrics, recession_limbs and Q_mrcs.
unpack_three(res) ==
    IF res.raised # "none"
    THEN [outcome |-> "raised", error |-> res.raised, mrc_out |-> mrc_missing, Q_rc |-> <<>>]
    ELSE IF res.arity # 3
    THEN [outcome |-> "raised", error |-> "ValueError", mrc_out |-> mrc_missing, Q_rc |-> <<>>]
    ELSE [outcome |-> "appended", error |-> "none", mrc_out |-> res.mrc_out, Q_rc |-> res.Q]

unit_outcome(cfg, unit, cfs1, cfs2, r_merged) ==
    IF ~call_binds
    THEN [outcome |-> "raised", error |-> "TypeError", mrc_out |-> mrc_missing, Q_rc |-> <<>>]
    ELSE unpack_three(analyse_recession_curves(unit.Q, cfg.mastercurve_algorithm,
                          cfg.recession_algorithm, cfg.moving_average_filter_steps,
                          cfg.minimum_recession_curve_length, cfg.maximum_reservoirs,
                          cfs1, cfs2, r_merged))

\* _read_data: gauges_meta has one row per gauge with decade -9999, or, when
\* compute_each_decade is set, the rows of the gauges once per decade
\* (pd.concat([gauges_meta] * len(decades))) with the decade column set to
\* no_of_gauges * decades, the list of decades repeated once per gauge
meta_decades(cfg) == IF cfg.compute_each_decade THEN <<1, 2>> ELSE <<0 - 9999>>

read_gauges_meta(cfg, cols) ==
    IF Len(cols) = 0 THEN <<>>
    ELSE [k \in 1..(Len(cols) * Len(meta_decades(cfg))) |->
            [gauge |-> cols[((k - 1) % Len(cols)) + 1].gauge,
             decade |-> meta_decades(cfg)[((k - 1) % Len(meta_decades(cfg))) + 1],
             has_rec |-> FALSE,
             rec |-> mrc_missing]]

\* the metrics of the units with the keys of a row of gauges_meta
metrics_of(row, df_metrics) ==
    {k \in 1..Len(df_metrics) :
        df_metrics[k].gauge = row.gauge /\ df_metrics[k].decade = row.decade}

\* pd.merge(gauges_meta, df_metrics, how='left', on=['gauge','decade']); the
\* units have distinct keys, so a row has at most one metric
merge(meta, df_metrics) ==
    [k \in 1..Len(meta) |->
        [gauge |-> meta[k].gauge, decade |-> meta[k].decade, has_rec |-> TRUE,
         rec |-> IF metrics_of(meta[k], df_metrics) = {} THEN mrc_missing
                 ELSE df_metrics[CHOOSE j \in metrics_of(meta[k], df_metrics) : TRUE].mrc_out]]

(***************************************************************************)
(* Model._read_data                                                        *)
(*                                                                         *)
(* A gauge name is [id, upper]; the time series table is a sequence of     *)
(* columns [gauge, Q], Q the rows [t, Q] of the column, and row t lies in  *)
(* the t-th decade; the table of the metadata is the sequence of the names *)
(* of its index.  Dates are given by their decade.                         *)
(***************************************************************************)
\* data_cleaning.drop_na_axis is None
None == 0 - 1

\* x.lower()
lower(name) == [id |-> name.id, upper |-> FALSE]

\* pd.read_csv(gauge_ts_path, index_col=0, parse_dates=True), the columns in
\* lower case
read_gauge_ts(csv) == [k \in 1..Len(csv) |-> [gauge |-> lower(csv[k].gauge), Q |-> MkSeries(csv[k].Q)]]

\* gauge_ts.loc[start_date:end_date]
loc_dates(table, start_date, end_date) ==
    [k \in 1..Len(table) |->
        [gauge |-> table[k].gauge,
         Q |-> SelectSeq(table[k].Q, LAMBDA row : start_date <= row.t /\ row.t <= end_date)]]

\* dropna(axis=1, how='all')
dropna_columns_all(table) ==
    SelectSeq(table, LAMBDA col : \E i \in 1..Len(col.Q) : ~isna(col.Q[i].Q))

\* dropna(axis=1, how='any')
dropna_columns_any(table) ==
    SelectSeq(table, LAMBDA col : \A i \in 1..Len(col.Q) : ~isna(col.Q[i].Q))

\* dropna(axis=0, how='any')
dropna_rows_any(table) ==
    [k \in 1..Len(table) |->
        [gauge |-> table[k].gauge,
         Q |-> SelectSeq(table[k].Q,
                   LAMBDA row : \A j \in 1..Len(table) :
                       \A i \in 1..Len(table[j].Q) :
                           table[j].Q[i].t = row.t => ~isna(table[j].Q[i].Q))]]

\* lines 97-111: the branches on drop_na_axis.  dropna returns a new table and
\* leaves the one it is called on as it is; the statements of the branches 1
\* and 0 are expressions whose value is not assigned
drop_na(table, drop_na_axis) ==
    LET dropped == IF drop_na_axis = 1 THEN dropna_rows_any(dropna_columns_any(table))
                   ELSE IF drop_na_axis = 0 THEN dropna_columns_any(dropna_rows_any(table))
                   ELSE table
    IN table

\* the names of the columns, and of the index of the metadata in lower case
columns_of(table) == {table[k].gauge : k \in 1..Len(table)}
index_of_meta(csv) == [k \in 1..Len(csv) |-> lower(csv[k])]

\* set(gauge_ts.columns).intersection(gauges_meta.index)
intersecting_gauges(table, meta) == columns_of(table) \cap {meta[k] : k \in 1..Len(meta)}

\* gauge_ts[intersecting_gauges]
select_columns(table, gauges) ==
    [k \in 1..Len(gauges) |-> table[CHOOSE j \in 1..Len(table) : table[j].gauge = gauges[k]]]

\* range(int(start_decade), int(end_decade) + 1, 10)
decade_range(start_date, end_date) == [k \in 1..(end_date - start_date + 1) |-> start_date + k - 1]

\* lines 132-149: pd.concat([gauges_meta] * len(decades)), whose k-th row is
\* row (k-1) mod G of gauges_meta, with the column decade set to
\* no_of_gauges * decades, whose k-th entry is entry (k-1) mod D of decades;
\* without compute_each_decade the decade of every row is -9999
with_decades(meta, compute_each_decade, ds) ==
    IF ~compute_each_decade
    THEN [k \in 1..Len(meta) |-> [gauge |-> meta[k], decade |-> 0 - 9999]]
    ELSE [k \in 1..(Len(meta) * Len(ds)) |->
             [gauge |-> meta[((k - 1) % Len(meta)) + 1],
              decade |-> ds[((k - 1) % Len(ds)) + 1]]]

\* lines 114-130: the metadata, reduced with valid_datapairs_only to the gauges
\* that have a column, in the order `gauges` in which the set is listed
read_meta(meta, valid_datapairs_only, gauges) == IF valid_datapairs_only THEN gauges ELSE meta

read_columns(table, valid_datapairs_only, gauges) ==
    IF valid_datapairs_only THEN select_columns(table, gauges) ELSE table

\* lines 88-95
sliced_gauge_ts(args) ==
    dropna_columns_all(loc_dates(read_gauge_ts(args.gauge_time_series),
                                 args.start_date, args.end_date))

\* the whole of _read_data
read_data(args, table, gauges) ==
    [gauge_ts |-> read_columns(drop_na(table, args.drop_na_axis),
                               args.valid_datapairs_only, gauges),
     gauges_meta |-> with_decades(read_meta(index_of_meta(args.gauge_meta),
                                            args.valid_datapairs_only, gauges),
                                  args.compute_each_decade,
                                  decade_range(args.start_date, args.end_date))]

(***************************************************************************)
(* The methods of Model and main (sbat.py), at the level of their calls,   *)
(* their exceptions and their files.  A method acts on                     *)
(* st = [sbat, disk, trace, error, call]: the Model, the files and         *)
(* directories written so far, the events so far, the exception the call   *)
(* has raised ("none" if none) and the number of the call.  The functions  *)
(* of the modules bflow and waterbalance return.                           *)
(***************************************************************************)
emit(st, op, arg) ==
    [st EXCEPT !.trace = Append(@, [call |-> st.call, op |-> op, arg |-> arg])]

raise(st, err) == [emit(st, "raise", err) EXCEPT !.error = err]

\* the statements after a call are not reached when the call has raised
then(st, Rest(_)) == IF st.error # "none" THEN st ELSE Rest(st)

\* if self.output: ... mkdir / to_csv / to_file
write_output(st, files) == IF st.sbat.output THEN [st EXCEPT !.disk = @ \cup files] ELSE st

\* line 25-26: importing the module creates <root>/output and the log file
LogFiles == {"<root>/output", "<root>/output/sbat.log"}

WorkingDirectories == {"output_dir", "output_dir/data"}
DischargeFiles == {"gauges_meta.csv"}
BaseflowFiles == {"gauges_meta.csv", "bf_daily.csv", "bf_monthly.csv", "bfi_monthly.csv"}
RecessionFiles ==
    {"gauges_meta.csv", "master_recession_curves.csv", "recession_limbs_time_series.csv"}
WaterBalanceFiles ==
    {"sections_meta.csv", "q_diff.csv", "sections_streamlines.gpkg", "sections_subbasin.gpkg",
     "gauges_meta.csv", "gauges_meta.gpkg"}
FigureFiles == {"output_dir/figures"}

\* lines 43-45: without output nothing is plotted
plot_results_kept(plot_results, output) == plot_results

plot_results_of(plot_results, output) == IF ~output THEN FALSE ELSE plot_results

\* __init__, lines 41-56
new_model(conf, output, gauge_ts) ==
    [config |-> [conf EXCEPT !.plot_results = plot_results_of(conf.plot_results, output)],
     output |-> output,
     gauge_ts |-> gauge_ts,
     bf_output |-> "empty",
     sections_meta |-> "None",
     master_recession_curves |-> "None"]

\* _build_wd, lines 78-80
build_wd(st) == write_output(st, WorkingDirectories)

\* get_discharge_stats
get_discharge_stats(st) ==
    write_output(emit(st, "get_discharge_stats", "gauge_ts"), DischargeFiles)

\* get_baseflow(data_ts): the default of data_ts is an empty DataFrame, which
\* has no DatetimeIndex to resample (line 172), so that the call raises before
\* bf_output is updated (line 218)
get_baseflow(st, data_ts) ==
    IF data_ts = "DataFrame()"
    THEN raise(emit(st, "get_baseflow", data_ts), "TypeError")
    ELSE write_output([emit(emit(st, "get_baseflow", data_ts), "bf_output.update", data_ts)
                          EXCEPT !.sbat.bf_output = data_ts],
                      BaseflowFiles)

\* get_water_balance, lines 546-549
flow_type_of(st, kwargs) ==
    IF kwargs # "none" THEN kwargs ELSE st.sbat.config.waterbalance_flow_type

\* lines 556-623: the baseflow is computed from the samples with bayesian
\* updating, and else from the melted discharge if there is no result yet
read_bf_output(st) ==
    IF st.sbat.bf_output = "empty" THEN raise(st, "KeyError")
    ELSE emit(st, "bf_output[]", "bf_daily or bf_monthly")

flow_data(st, flow_type) ==
    IF flow_type # "baseflow" THEN st
    ELSE IF st.sbat.config.bayesian_updating
    THEN then(get_baseflow(st, "data_ts_uncertain"), read_bf_output)
    ELSE IF st.sbat.bf_output = "empty"
    THEN then(get_baseflow(st, "data_ts"), read_bf_output)
    ELSE read_bf_output(st)

\* lines 625-693
section_waterbalance(st) ==
    write_output([emit(st, "get_section_waterbalance", "data_ts")
                     EXCEPT !.sbat.sections_meta = "computed"],
                 WaterBalanceFiles)

get_water_balance(st, kwargs) ==
    IF ~st.sbat.config.river_network
    THEN emit(st, "get_water_balance", "returned")
    ELSE then(flow_data(emit(st, "get_water_balance", flow_type_of(st, kwargs)),
                        flow_type_of(st, kwargs)),
              section_waterbalance)

\* get_recession_curve, lines 304-309
read_bf_daily(st) ==
    IF st.sbat.bf_output = "empty" THEN raise(st, "KeyError")
    ELSE emit(st, "bf_output[]", "bf_daily")

\* lines 298-311: self.get_baseflow() is called without the data
hydrograph_data(st) ==
    IF st.sbat.config.flow_type = "baseflow"
    THEN then(IF st.sbat.bf_output = "empty" THEN get_baseflow(st, "DataFrame()") ELSE st,
              read_bf_daily)
    ELSE emit(st, "Q", "gauge_ts")

\* line 329
pivot_sections(st) ==
    IF st.sbat.sections_meta = "None" THEN raise(st, "AttributeError")
    ELSE emit(st, "Q", "sections_meta")

\* hasattr(self, name)
hasattr(object, name) == name \in DOMAIN object

\* lines 314-336: the key 'flowtype' may be missing in the configuration; when
\* the water balance is not run, Q is not assigned and line 333 raises
waterbalance_data(st) ==
    IF hasattr(st.sbat, "sections_meta") /\ st.sbat.config.waterbalance_flowtype = "missing"
    THEN raise(st, "KeyError")
    ELSE IF ~hasattr(st.sbat, "sections_meta")
            \/ st.sbat.config.flow_type # st.sbat.config.waterbalance_flowtype
    THEN then(get_water_balance(st, st.sbat.config.flow_type), pivot_sections)
    ELSE raise(st, "UnboundLocalError")

recession_data(st) ==
    IF st.sbat.config.curve_type = "hydrograph" THEN hydrograph_data(st)
    ELSE waterbalance_data(st)

\* lines 339-409: with a gauge to handle the first call of
\* analyse_recession_curves decides, and without one pd.concat has nothing to
\* concatenate
loop_outcome_bound(has_gauges) == IF ~has_gauges THEN "ValueError" ELSE "none"

loop_outcome(has_gauges) ==
    IF ~has_gauges THEN "ValueError"
    ELSE IF ~call_binds THEN "TypeError"
    ELSE "none"

\* lines 407-497
finish_recession(st) ==
    write_output([st EXCEPT !.sbat.master_recession_curves = "computed"], RecessionFiles)

recession_loop(st) ==
    IF loop_outcome(st.sbat.gauge_ts = "gauges") # "none"
    THEN raise(emit(st, "analyse_recession_curves", "first unit"),
               loop_outcome(st.sbat.gauge_ts = "gauges"))
    ELSE finish_recession(st)

get_recession_curve(st) ==
    then(recession_data(emit(st, "get_recession_curve", st.sbat.bf_output)), recession_loop)

\* Plotter(sbat) writes its figures below output_dir (plot.py)
Plotter(st) == [emit(st, "Plotter", "sbat") EXCEPT !.disk = @ \cup FigureFiles]

(***************************************************************************)
(* State                                                                   *)
(***************************************************************************)
VARIABLES
    pc,        \* position of the call under analysis
    cQ,        \* clean_gauge_ts: the series passed in
    cRet,      \* clean_gauge_ts: what the call produced
    lArgs,     \* find_recession_limbs: [Q, smooth_window_size, minimum_recession_curve_length]
    lRet,      \* find_recession_limbs: what the call produced
    fArgs,     \* fit_reservoir_function: [Q_0, constant_Q_0, no_of_partial_sums,
               \*   recession_algorithm, cf]
    fRet,      \* fit_reservoir_function: what the call produced
    aArgs,     \* analyse_recession_curves: its arguments
    aFits,     \* analyse_recession_curves: the curve_fit outcomes of the limb fits
    aRet,      \* analyse_recession_curves: what the call produced
    config,    \* Model.config, the entries get_recession_curve reads
    gauge_ts,  \* Model.gauge_ts: the columns [gauge, Q]
    gauges_meta,  \* Model.gauges_meta: the rows [gauge, decade, has_rec, rec]
    units,     \* get_recession_curve: the (decade, gauge) units the loop has not reached
    metrics,          \* get_recession_curve: the list metrics
    recession_limbs,  \* get_recession_curve: the list recession_limbs
    Q_mrcs,           \* get_recession_curve: the list Q_mrcs
    log,       \* get_recession_curve: the units handled so far, each with its outcome
    error,     \* get_recession_curve: the exception that ended it, or "none"
    iArgs,     \* the model functions: [recession_algorithm, x, Q_0, n]
    iRet,      \* the model functions: [Q, t], the curve's value and the inverse of it
    mArgs,     \* the master-curve algorithms: the limbs and what the fits return
    mRet,      \* the master-curve algorithms: the data they built
    rArgs,     \* Model._read_data: the configuration and the two input tables
    rRet,      \* Model._read_data: gauge_ts and gauges_meta as it leaves them
    run,       \* a use of a Model: who drives it, where it stands, the calls made
    sbat,      \* the Model: its configuration and the attributes the methods set
    disk,      \* the directories made and the files written by the Model
    trace      \* the calls among the methods and the reads of bf_output, in order

cleanVars == <<cQ, cRet>>
limbVars == <<lArgs, lRet>>
fitVars == <<fArgs, fRet>>
analyseVars == <<aArgs, aFits, aRet>>
batchVars == <<config, gauge_ts, gauges_meta, units, metrics, recession_limbs, Q_mrcs, log, error>>

curveVars == <<iArgs, iRet, mArgs, mRet>>
readVars == <<rArgs, rRet>>
modelVars == <<run, sbat, disk, trace>>

vars == <<pc, cleanVars, limbVars, fitVars, analyseVars, batchVars, curveVars, readVars,
          modelVars>>

NoArgs == <<>>

NoClean == cQ = NoArgs /\ cRet = NoArgs
NoLimbs == lArgs = NoArgs /\ lRet = NoArgs
NoFit == fArgs = NoArgs /\ fRet = NoArgs
NoAnalyse == aArgs = NoArgs /\ aFits = NoArgs /\ aRet = NoArgs
NoInverse == iArgs = NoArgs /\ iRet = NoArgs
NoMaster == mArgs = NoArgs /\ mRet = NoArgs
NoRead == rArgs = NoArgs /\ rRet = NoArgs
NoModel == run = NoArgs /\ sbat = NoArgs /\ disk = {} /\ trace = NoArgs
NoBatch ==
    /\ config = NoArgs /\ gauge_ts = NoArgs /\ gauges_meta = NoArgs /\ units = NoArgs /\ metrics = NoArgs
    /\ recession_limbs = NoArgs /\ Q_mrcs = NoArgs /\ log = NoArgs /\ error = "none"

(***************************************************************************)
(* The calls, each on inputs drawn from the bounded sets                   *)
(***************************************************************************)
SeriesInputs == {MkSeries(v) : v \in SeqsUpTo(ValuesNa, MaxLen)}

HasNa(Q) == \E i \in 1..Len(Q) : isna(Q[i].Q)

\* smooth_window_size: not positive (no smoothing), 1 (window 1), 2 and 3 (window 3)
WindowSizes == {0 - 1, 0, 1, 2, 3}

\* smoothing is enumerated on series without missing values
LimbInputs ==
    {a \in [Q : SeriesInputs \cup {MkSeries(ScenarioValues)},
            smooth_window_size : WindowSizes,
            minimum_recession_curve_length : 1..MaxMinLength] :
        a.smooth_window_size > 0 => ~HasNa(a.Q)}

InitClean ==
    /\ pc = "call"
    /\ cQ \in SeriesInputs
    /\ cRet = NoArgs
    /\ NoLimbs /\ NoFit /\ NoAnalyse /\ NoBatch /\ NoInverse /\ NoMaster /\ NoRead /\ NoModel

CallClean ==
    /\ pc = "call"
    /\ cRet' = clean_gauge_ts(cQ)
    /\ pc' = "done"
    /\ UNCHANGED <<cQ, limbVars, fitVars, analyseVars, batchVars, curveVars, readVars, modelVars>>

NextClean == CallClean

SpecClean == InitClean /\ [][NextClean]_vars

InitLimbs ==
    /\ pc = "call"
    /\ lArgs \in LimbInputs
    /\ lRet = NoArgs
    /\ NoClean /\ NoFit /\ NoAnalyse /\ NoBatch /\ NoInverse /\ NoMaster /\ NoRead /\ NoModel

CallLimbs ==
    /\ pc = "call"
    /\ lRet' = find_recession_limbs(lArgs.Q, lArgs.smooth_window_size,
                                    lArgs.minimum_recession_curve_length)
    /\ pc' = "done"
    /\ UNCHANGED <<lArgs, cleanVars, fitVars, analyseVars, batchVars, curveVars, readVars, modelVars>>

NextLimbs == CallLimbs

SpecLimbs == InitLimbs /\ [][NextLimbs]_vars

\* the correlations curve_fit's result can have, in units of 1/10000
Correlations == {NaN, 0 - 9000, 0, 5000, 9000, 9400, 9600}

CurveFitOutcomes ==
    {CurveFitOutcome(FALSE, NaN)} \cup {CurveFitOutcome(TRUE, r) : r \in Correlations}

AlgorithmNames == model_functions \cup {"linear"}

FitInputs ==
    [Q_0 : Values,
     constant_Q_0 : BOOLEAN,
     no_of_partial_sums : 1..MaxRequested,
     recession_algorithm : AlgorithmNames,
     cf : [1..max_sums -> CurveFitOutcomes]]

InitFit ==
    /\ pc = "call"
    /\ fArgs \in FitInputs
    /\ fRet = NoArgs
    /\ NoClean /\ NoLimbs /\ NoAnalyse /\ NoBatch /\ NoInverse /\ NoMaster /\ NoRead /\ NoModel

CallFit ==
    /\ pc = "call"
    /\ fRet' = fit_reservoir_function(fArgs.Q_0, fArgs.constant_Q_0, fArgs.no_of_partial_sums,
                                      fArgs.recession_algorithm, fArgs.cf)
    /\ pc' = "done"
    /\ UNCHANGED <<fArgs, cleanVars, limbVars, analyseVars, batchVars, curveVars, readVars, modelVars>>

NextFit == CallFit

SpecFit == InitFit /\ [][NextFit]_vars

\* what the three curve_fit calls of one fit_reservoir_function call do, in the
\* calls of analyse_recession_curves: the 1-term model is accepted and the
\* 2-term model brings too little; every model is accepted; the 1-term fit does
\* not converge; the 2-term fit does not converge; the 1-term curve does not
\* correlate with the data
AnalyseCurveFits ==
    {<<CurveFitOutcome(TRUE, 9000), CurveFitOutcome(TRUE, 9400), CurveFitOutcome(TRUE, 9600)>>,
     <<CurveFitOutcome(TRUE, 5000), CurveFitOutcome(TRUE, 9000), CurveFitOutcome(TRUE, 9600)>>,
     <<CurveFitOutcome(FALSE, NaN), CurveFitOutcome(TRUE, 9000), CurveFitOutcome(TRUE, 9600)>>,
     <<CurveFitOutcome(TRUE, 5000), CurveFitOutcome(FALSE, NaN), CurveFitOutcome(TRUE, 9600)>>,
     <<CurveFitOutcome(TRUE, 0), CurveFitOutcome(TRUE, 9000), CurveFitOutcome(TRUE, 9600)>>}

MergedCorrelations == {5000, 9000}

MasterCurveNames == {"demuth", "matching_strip", "none", "demut"}

AnalyseInputs ==
    [Q : SeriesInputs,
     mrc_algorithm : MasterCurveNames,
     recession_algorithm : AlgorithmNames,
     smooth_window_size : {0},
     minimum_recession_curve_length : 1..2,
     maximum_reservoirs : {1, 3}]

InitAnalyse ==
    /\ pc = "call"
    /\ aArgs \in AnalyseInputs
    /\ aFits = NoArgs
    /\ aRet = NoArgs
    /\ NoClean /\ NoLimbs /\ NoFit /\ NoBatch /\ NoInverse /\ NoMaster /\ NoRead /\ NoModel

Analyse(cfs1, cfs2, r_merged) ==
    analyse_recession_curves(aArgs.Q, aArgs.mrc_algorithm, aArgs.recession_algorithm,
                             aArgs.smooth_window_size, aArgs.minimum_recession_curve_length,
                             aArgs.maximum_reservoirs, cfs1, cfs2, r_merged)

Found == find_recession_limbs(aArgs.Q, aArgs.smooth_window_size,
                              aArgs.minimum_recession_curve_length)

\* lines 322-339: the limbs are looked for; without one the call is over
Segmented(found) ==
    IF found.raised # "none" \/ Len(found.Q) = 0
    THEN aRet' = analyse_found(found, aArgs.mrc_algorithm, aArgs.recession_algorithm,
                               aArgs.maximum_reservoirs, <<>>, <<>>, NaN)
         /\ pc' = "done"
    ELSE aRet' = aRet /\ pc' = "segmented"

AnalyseSegment ==
    /\ pc = "call"
    /\ Segmented(Found)
    /\ UNCHANGED <<aArgs, aFits, cleanVars, limbVars, fitVars, batchVars, curveVars, readVars, modelVars>>

\* lines 343-359: every limb is fitted
Fitted(fitted) ==
    IF fitted.raised # "none"
    THEN aRet' = analyse_fitted(fitted, aArgs.mrc_algorithm, aArgs.recession_algorithm,
                                <<>>, NaN)
         /\ pc' = "done"
    ELSE aRet' = aRet /\ pc' = "fitted"

AnalyseFitLimbs ==
    /\ pc = "segmented"
    /\ \E cfs1 \in [1..Cardinality(SectionIds(Found.Q)) -> AnalyseCurveFits] :
          /\ aFits' = cfs1
          /\ Fitted(fit_limbs(1, Found.Q, aArgs.recession_algorithm,
                              aArgs.maximum_reservoirs, cfs1, <<>>, <<>>))
    /\ UNCHANGED <<aArgs, cleanVars, limbVars, fitVars, batchVars, curveVars, readVars, modelVars>>

\* lines 361-460: the master curve
master_curve_fits(n) ==
    IF aArgs.mrc_algorithm = "matching_strip" THEN n
    ELSE IF aArgs.mrc_algorithm = "demuth" THEN 2 ELSE 0

AnalyseMasterCurve ==
    /\ pc = "fitted"
    /\ \E cfs2 \in [1..master_curve_fits(Cardinality(SectionIds(Found.Q)))
                       -> AnalyseCurveFits],
          r_merged \in MergedCorrelations :
             aRet' = Analyse(aFits, cfs2, r_merged)
    /\ pc' = "done"
    /\ UNCHANGED <<aArgs, aFits, cleanVars, limbVars, fitVars, batchVars, curveVars, readVars, modelVars>>

NextAnalyse == AnalyseSegment \/ AnalyseFitLimbs \/ AnalyseMasterCurve

SpecAnalyse == InitAnalyse /\ [][NextAnalyse]_vars

\* gauge_ts: no, one or two gauges, each with MaxLen time steps of which at
\* least one has a value (_read_data drops the columns without any)
GaugeColumns == {v \in SeqsUpTo(ValuesNa, MaxLen) :
                    Len(v) = MaxLen /\ \E i \in 1..Len(v) : ~isna(v[i])}

GaugeTables ==
    {<<>>}
    \cup {<<[gauge |-> "g1", Q |-> v]>> : v \in GaugeColumns}
    \cup {<<[gauge |-> "g1", Q |-> v], [gauge |-> "g2", Q |-> <<3, 2, 1, 2>>]>> :
             v \in GaugeColumns}

Configs ==
    [mastercurve_algorithm : {"demuth", "matching_strip"},
     recession_algorithm : model_functions,
     moving_average_filter_steps : {0},
     minimum_recession_curve_length : {1},
     maximum_reservoirs : {1, 3},
     compute_each_decade : BOOLEAN,
     split : {2}]

InitBatch ==
    /\ pc = "call"
    /\ config \in Configs
    /\ gauge_ts \in GaugeTables
    /\ gauges_meta = read_gauges_meta(config, gauge_ts)
    /\ units = NoArgs /\ metrics = NoArgs /\ recession_limbs = NoArgs /\ Q_mrcs = NoArgs
    /\ log = NoArgs /\ error = "none"
    /\ NoClean /\ NoLimbs /\ NoFit /\ NoAnalyse /\ NoInverse /\ NoMaster /\ NoRead /\ NoModel

\* lines 292-341: Q = self.gauge_ts with its decade column, the empty lists
RecessionStart ==
    /\ pc = "call"
    /\ units' = all_units(config, gauge_ts, MaxLen)
    /\ metrics' = <<>> /\ recession_limbs' = <<>> /\ Q_mrcs' = <<>>
    /\ pc' = "loop"
    /\ UNCHANGED <<config, gauge_ts, gauges_meta, log, error,
                   cleanVars, limbVars, fitVars, analyseVars, curveVars, readVars, modelVars>>

\* lines 342-404: the body of the loop for the next unit
Handled(unit, out) ==
    /\ log' = Append(log, [gauge |-> unit.gauge, decade |-> unit.decade,
                           Q |-> unit.Q, outcome |-> out.outcome, error |-> out.error])
    /\ IF out.outcome = "raised"
       THEN /\ error' = out.error
            /\ pc' = "raised"
            /\ UNCHANGED <<units, metrics, recession_limbs, Q_mrcs>>
       ELSE /\ units' = Tail(units)
            /\ UNCHANGED <<pc, error>>
            /\ IF out.outcome = "skipped"
               THEN UNCHANGED <<metrics, recession_limbs, Q_mrcs>>
               ELSE /\ metrics' = Append(metrics,
                           [gauge |-> unit.gauge, decade |-> unit.decade,
                            mrc_out |-> out.mrc_out])
                    /\ recession_limbs' = Append(recession_limbs,
                           [gauge |-> unit.gauge, decade |-> unit.decade,
                            Q_rc |-> out.Q_rc])
                    /\ Q_mrcs' = Append(Q_mrcs,
                           [gauge |-> unit.gauge, decade |-> unit.decade])

\* the calls of curve_fit a unit can lead to, when the call is made at all
unit_fits(unit) ==
    IF call_binds
    THEN [1..Cardinality(SectionIds(find_recession_limbs(unit.Q,
                config.moving_average_filter_steps,
                config.minimum_recession_curve_length).Q)) -> AnalyseCurveFits]
    ELSE {<<>>}

RecessionUnit ==
    /\ pc = "loop"
    /\ units # <<>>
    /\ \E cfs1 \in unit_fits(Head(units)), cfs2 \in unit_fits(Head(units)),
          r_merged \in (IF call_binds THEN MergedCorrelations ELSE {NaN}) :
             Handled(Head(units), unit_outcome(config, Head(units), cfs1, cfs2, r_merged))
    /\ UNCHANGED <<config, gauge_ts, gauges_meta,
                   cleanVars, limbVars, fitVars, analyseVars, curveVars, readVars, modelVars>>

\* lines 409-427: pd.concat of the lists (it raises on an empty list) and the
\* merge of the metrics into gauges_meta
RecessionFinish ==
    /\ pc = "loop"
    /\ units = <<>>
    /\ IF recession_limbs = <<>>
       THEN error' = "ValueError" /\ pc' = "raised" /\ gauges_meta' = gauges_meta
       ELSE error' = error /\ pc' = "done" /\ gauges_meta' = merge(gauges_meta, metrics)
    /\ UNCHANGED <<config, gauge_ts, units, metrics, recession_limbs, Q_mrcs, log,
                   cleanVars, limbVars, fitVars, analyseVars, curveVars, readVars, modelVars>>

NextBatch == RecessionStart \/ RecessionUnit \/ RecessionFinish

SpecBatch == InitBatch /\ [][NextBatch]_vars

\* the times, in half steps, the initial flows and the decay rates the model
\* functions are evaluated on
Times == {Real(k, 2) : k \in 0..MaxHalfSteps}
Flows == {Real(q, 1) : q \in Values} \cup {Real(1, 2)}
Rates == {Real(1, 2), Real(1, 1), Real(2, 1), Real(1, 3)}

InverseInputs ==
    [recession_algorithm : model_functions, x : Times, Q_0 : Flows, n : Rates]

InitInverse ==
    /\ pc = "call"
    /\ iArgs \in InverseInputs
    /\ iRet = NoArgs
    /\ NoMaster /\ NoRead /\ NoModel
    /\ NoClean /\ NoLimbs /\ NoFit /\ NoAnalyse /\ NoBatch

\* the value of the curve at x, and the time the inverse function gives for it
Inverted(Q) ==
    iRet' = [Q |-> Q, t |-> inv_func(iArgs.recession_algorithm, Q, iArgs.Q_0, iArgs.n)]

CallInverse ==
    /\ pc = "call"
    /\ Inverted(model_function_1(iArgs.recession_algorithm, iArgs.x, iArgs.Q_0, iArgs.n))
    /\ pc' = "done"
    /\ UNCHANGED <<iArgs, mArgs, mRet, cleanVars, limbVars, fitVars, analyseVars, batchVars,
                   readVars, modelVars>>

NextInverse == CallInverse

SpecInverse == InitInverse /\ [][NextInverse]_vars

(***************************************************************************)
(* Calls of matching_strip and demuth on limb tables (SpecMaster)          *)
(***************************************************************************)
\* discharges on which the shifts are exact: squares for boussinesq, powers
\* of e for maillet
grid_value(recession_algorithm, g) ==
    IF recession_algorithm = "boussinesq" THEN Real(g * g, 1) ELSE Num(Rat(1, 1), Rat(g, 1))

\* the steps of the grid
Grid == {1, 2, 3}

\* a limb falls from the g-th value of the grid over len days
LimbShapes == {shape \in [g : Grid, len : {1, 2}] : shape.len <= shape.g}

\* the rows of the i-th limb as find_recession_limbs leaves them: Q0 is the
\* largest value of the limb, and the section id when there is one limb only
limb_table_rows(recession_algorithm, shapes, i) ==
    [k \in 1..shapes[i].len |->
        [section_id |-> 2 * i, section_time |-> k - 1,
         Q |-> grid_value(recession_algorithm, shapes[i].g - k + 1),
         Q0 |-> IF Len(shapes) = 1 THEN Real(2 * i, 1)
                ELSE grid_value(recession_algorithm, shapes[i].g)]]

RECURSIVE limb_table(_, _, _)
limb_table(recession_algorithm, shapes, i) ==
    IF i > Len(shapes) THEN <<>>
    ELSE limb_table_rows(recession_algorithm, shapes, i)
         \o limb_table(recession_algorithm, shapes, i + 1)

\* the rates curve_fit may return
MasterRates == {Real(1, 1), Real(2, 1)}

LimbTables == SeqsUpTo(LimbShapes, MaxLimbs) \ {<<>>}

\* what the curve_fit calls of the final fit of demuth do: the 1-term model is
\* accepted and the 2-term model brings too little; both are accepted
MasterCurveFits ==
    {<<CurveFitOutcome(TRUE, 9000), CurveFitOutcome(TRUE, 9400), CurveFitOutcome(TRUE, 9600)>>,
     <<CurveFitOutcome(TRUE, 5000), CurveFitOutcome(TRUE, 9000), CurveFitOutcome(TRUE, 9600)>>}

\* one rate for every fit of matching_strip
MatchingStripInputs ==
    UNION {[recession_algorithm : {alg}, mrc_algorithm : {"matching_strip"},
            Q : {limb_table(alg, shapes, 1)},
            rates : [1..Len(shapes) -> MasterRates]] :
              alg \in model_functions, shapes \in LimbTables}

\* the rate of the initial fit and the outcomes of the final fit of demuth
DemuthInputs ==
    UNION {[recession_algorithm : {alg}, mrc_algorithm : {"demuth"},
            Q : {limb_table(alg, shapes, 1)},
            rates : [1..1 -> MasterRates], cf : MasterCurveFits] :
              alg \in model_functions, shapes \in LimbTables}

MasterInputs == MatchingStripInputs \cup DemuthInputs

InitMaster ==
    /\ pc = "call"
    /\ mArgs \in MasterInputs
    /\ mRet = NoArgs
    /\ NoInverse /\ NoRead /\ NoModel
    /\ NoClean /\ NoLimbs /\ NoFit /\ NoAnalyse /\ NoBatch

CallMatchingStrip ==
    /\ pc = "call"
    /\ mArgs.mrc_algorithm = "matching_strip"
    /\ mRet' = matching_strip_data(mArgs.Q, mArgs.recession_algorithm, mArgs.rates)
    /\ pc' = "done"
    /\ UNCHANGED <<mArgs, iArgs, iRet, cleanVars, limbVars, fitVars, analyseVars, batchVars,
                   readVars, modelVars>>

CallDemuth ==
    /\ pc = "call"
    /\ mArgs.mrc_algorithm = "demuth"
    /\ mRet' = demuth_return(demuth_data(mArgs.Q, groupby_section_id(mArgs.Q),
                                         mArgs.recession_algorithm, mArgs.rates),
                             demuth_final_fit(mArgs.Q, mArgs.recession_algorithm, mArgs.cf))
    /\ pc' = "done"
    /\ UNCHANGED <<mArgs, iArgs, iRet, cleanVars, limbVars, fitVars, analyseVars, batchVars,
                   readVars, modelVars>>

NextMaster == CallMatchingStrip \/ CallDemuth

SpecMaster == InitMaster /\ [][NextMaster]_vars

(***************************************************************************)
(* Calls of Model._read_data (SpecRead)                                    *)
(***************************************************************************)
\* a column over the MaxDecades rows of the input: complete, the first value
\* missing, the last value missing, every value missing
ColumnInputs ==
    {[t \in 1..MaxDecades |-> 1],
     [t \in 1..MaxDecades |-> IF t = 1 THEN NaN ELSE 1],
     [t \in 1..MaxDecades |-> IF t = MaxDecades THEN NaN ELSE 2],
     [t \in 1..MaxDecades |-> NaN]}

\* the k-th column is that of gauge k; the name of the first is in upper case
TimeSeriesInputs ==
    {[k \in 1..Len(qs) |-> [gauge |-> [id |-> k, upper |-> k = 1], Q |-> qs[k]]] :
        qs \in SeqsUpTo(ColumnInputs, MaxGauges)}

\* the metadata has the gauges 1..G, or the gauges 2..G+1
MetaInputs(G) ==
    {[k \in 1..G |-> [id |-> k, upper |-> k = 1]],
     [k \in 1..G |-> [id |-> k + 1, upper |-> FALSE]]}

ReadInputs ==
    UNION {[gauge_time_series : {csv}, gauge_meta : MetaInputs(G),
            start_date : {start}, end_date : start..MaxDecades,
            drop_na_axis : {None, 0, 1},
            valid_datapairs_only : BOOLEAN, compute_each_decade : BOOLEAN] :
              csv \in TimeSeriesInputs, G \in 0..MaxGauges, start \in 1..MaxDecades}

InitRead ==
    /\ pc = "call"
    /\ rArgs \in ReadInputs
    /\ rRet = NoArgs
    /\ NoInverse /\ NoMaster /\ NoModel
    /\ NoClean /\ NoLimbs /\ NoFit /\ NoAnalyse /\ NoBatch

\* list(set(...)) lists the set in an order of its own
Read(table) ==
    \E gauges \in OrdersOf(intersecting_gauges(table, index_of_meta(rArgs.gauge_meta))) :
        rRet' = read_data(rArgs, table, gauges)

ReadData ==
    /\ pc = "call"
    /\ Read(sliced_gauge_ts(rArgs))
    /\ pc' = "done"
    /\ UNCHANGED <<rArgs, cleanVars, limbVars, fitVars, analyseVars, batchVars, curveVars,
                   modelVars>>

NextRead == ReadData

SpecRead == InitRead /\ [][NextRead]_vars

(***************************************************************************)
(* Runs of main, and calls of the methods of a Model (SpecModel)           *)
(***************************************************************************)
ConfigInputs ==
    [plot_results : BOOLEAN,
     discharge : BOOLEAN, baseflow : BOOLEAN, recession : BOOLEAN, waterbalance : BOOLEAN,
     curve_type : {"hydrograph", "waterbalance"},
     flow_type : {"baseflow", "discharge"},
     waterbalance_flowtype : {"missing", "baseflow", "discharge"},
     waterbalance_flow_type : {"baseflow", "discharge"},
     river_network : BOOLEAN,
     bayesian_updating : BOOLEAN]

\* main reads the switches of the four stages; a caller of the methods does not
RunInputs ==
    [driver : {"main"}, stage : {"new"}, calls : {0}, output : BOOLEAN,
     gauge_ts : {"gauges", "no gauges"}, conf : ConfigInputs]
    \cup
    [driver : {"calls"}, stage : {"new"}, calls : {0}, output : BOOLEAN,
     gauge_ts : {"gauges", "no gauges"},
     conf : {c \in ConfigInputs : ~c.discharge /\ ~c.baseflow /\ ~c.recession /\ ~c.waterbalance}]

InitModel ==
    /\ pc = "call"
    /\ run \in RunInputs
    /\ sbat = NoArgs
    /\ disk = LogFiles
    /\ trace = <<>>
    /\ NoInverse /\ NoMaster /\ NoRead
    /\ NoClean /\ NoLimbs /\ NoFit /\ NoAnalyse /\ NoBatch

OtherVars == <<pc, cleanVars, limbVars, fitVars, analyseVars, batchVars, curveVars, readVars>>

\* the state a call starts in
Entry == [sbat |-> sbat, disk |-> disk, trace |-> trace, error |-> "none", call |-> run.calls + 1]

\* the state a call leaves; main ends with the exception of a call
Leave(st, stage, calls) ==
    /\ sbat' = st.sbat
    /\ disk' = st.disk
    /\ trace' = st.trace
    /\ run' = [run EXCEPT !.stage = IF st.error # "none" /\ run.driver = "main"
                                     THEN "raised" ELSE stage,
                          !.calls = calls]
    /\ UNCHANGED OtherVars

\* sbat = Model(configuration, output)
Construct ==
    /\ run.stage = "new"
    /\ Leave(build_wd([sbat |-> new_model(run.conf, run.output, run.gauge_ts), disk |-> disk,
                       trace |-> trace, error |-> "none", call |-> 0]),
             IF run.driver = "main" THEN "discharge" ELSE "calls", 0)

\* main, lines 703-706
MainDischarge ==
    /\ run.driver = "main" /\ run.stage = "discharge"
    /\ IF sbat.config.discharge
       THEN Leave(get_discharge_stats(Entry), "baseflow", run.calls + 1)
       ELSE Leave(Entry, "baseflow", run.calls)

\* main, lines 709-714
MainBaseflow ==
    /\ run.driver = "main" /\ run.stage = "baseflow"
    /\ IF sbat.config.baseflow
       THEN Leave(get_baseflow(Entry, "gauge_ts"), "recession", run.calls + 1)
       ELSE Leave(Entry, "recession", run.calls)

\* main, lines 716-719
MainRecession ==
    /\ run.driver = "main" /\ run.stage = "recession"
    /\ IF sbat.config.recession
       THEN Leave(get_recession_curve(Entry), "waterbalance", run.calls + 1)
       ELSE Leave(Entry, "waterbalance", run.calls)

\* main, lines 722-725: the attribute asked for is section_meta
MainWaterBalance ==
    /\ run.driver = "main" /\ run.stage = "waterbalance"
    /\ IF ~hasattr(sbat, "section_meta") /\ sbat.config.waterbalance
       THEN Leave(get_water_balance(Entry, "none"), "plot", run.calls + 1)
       ELSE Leave(Entry, "plot", run.calls)

\* main, lines 727-732
MainPlot ==
    /\ run.driver = "main" /\ run.stage = "plot"
    /\ IF sbat.config.plot_results
       THEN Leave(Plotter(Entry), "end", run.calls)
       ELSE Leave(Entry, "end", run.calls)

\* a caller of the methods, who goes on after an exception
CallDischargeStats ==
    /\ run.driver = "calls" /\ run.stage = "calls" /\ run.calls < MaxCalls
    /\ Leave(get_discharge_stats(Entry), "calls", run.calls + 1)

CallBaseflow ==
    /\ run.driver = "calls" /\ run.stage = "calls" /\ run.calls < MaxCalls
    /\ \E data_ts \in {"gauge_ts", "DataFrame()"} :
           Leave(get_baseflow(Entry, data_ts), "calls", run.calls + 1)

CallRecessionCurve ==
    /\ run.driver = "calls" /\ run.stage = "calls" /\ run.calls < MaxCalls
    /\ Leave(get_recession_curve(Entry), "calls", run.calls + 1)

CallWaterBalance ==
    /\ run.driver = "calls" /\ run.stage = "calls" /\ run.calls < MaxCalls
    /\ \E kwargs \in {"none", "baseflow", "discharge"} :
           Leave(get_water_balance(Entry, kwargs), "calls", run.calls + 1)

NextModel ==
    \/ Construct
    \/ MainDischarge \/ MainBaseflow \/ MainRecession \/ MainWaterBalance \/ MainPlot
    \/ CallDischargeStats \/ CallBaseflow \/ CallRecessionCurve \/ CallWaterBalance

SpecModel == InitModel /\ [][NextModel]_vars

(***************************************************************************)
(* Claims about clean_gauge_ts (SpecClean)                                 *)
(***************************************************************************)
ValidPositions(vals) == {i \in 1..Len(vals) : vals[i].Q # NaN}

\* C10: a series whose values are all missing (the empty series included) makes
\* clean_gauge_ts raise and return nothing; a series with a value that is not
\* missing comes back, without an error, as its rows from the first to the last
\* value that is not missing.
C10_CleanerContract ==
    pc = "done" =>
        LET valid == ValidPositions(cQ)
        IN IF valid = {}
           THEN cRet.raised = "ValueError" /\ cRet.Q = <<>>
           ELSE /\ cRet.raised = "none"
                /\ Len(cRet.Q) = SetMax(valid) - SetMin(valid) + 1
                /\ \A k \in 1..Len(cRet.Q) : cRet.Q[k] = cQ[SetMin(valid) + k - 1]

\* a series with missing values at both ends and inside has been trimmed
C10_Witness ==
    /\ pc = "done"
    /\ Len(cQ) = 4
    /\ isna(cQ[1].Q) /\ ~isna(cQ[2].Q) /\ ~isna(cQ[3].Q) /\ isna(cQ[4].Q)
    /\ cRet.raised = "none"
    /\ Len(cRet.Q) = 2

(***************************************************************************)
(* Claims about find_recession_limbs (SpecLimbs)                           *)
(***************************************************************************)
IsScenarioCall ==
    /\ lArgs.Q = MkSeries(ScenarioValues)
    /\ lArgs.minimum_recession_curve_length = 3
    /\ lArgs.smooth_window_size <= 0

\* the columns of the output the scenario speaks of, in time order
Column(rows, f(_)) == [i \in 1..Len(rows) |-> f(rows[i])]

\* C1 as stated: the scenario yields the segments [10,9,8,7] (relative time 0..3,
\* Q0 = 10) and [10,9,8,7,6,5] (relative time 0..5, Q0 = 10) and nothing else.
C1_AsStated ==
    (pc = "done" /\ IsScenarioCall) =>
        /\ lRet.raised = "none"
        /\ Column(lRet.Q, LAMBDA r : r.Q) = <<10, 9, 8, 7, 10, 9, 8, 7, 6, 5>>
        /\ Column(lRet.Q, LAMBDA r : r.section_time) = <<0, 1, 2, 3, 0, 1, 2, 3, 4, 5>>
        /\ \A i \in 1..Len(lRet.Q) : lRet.Q[i].Q0 = 10

\* C1 (amended): the scenario yields exactly two falling segments, [9,8,7] with
\* relative time 0..2 and Q0 = 9 and [9,8,7,6,5] with relative time 0..4 and
\* Q0 = 9; the two rows of value 10, whose difference to the row before is not
\* negative, and the rising run are not in the output.
C1_ScenarioSegments ==
    (pc = "done" /\ IsScenarioCall) =>
        /\ lRet.raised = "none"
        /\ Column(lRet.Q, LAMBDA r : r.t) = <<2, 3, 4, 8, 9, 10, 11, 12>>
        /\ Column(lRet.Q, LAMBDA r : r.Q) = <<9, 8, 7, 9, 8, 7, 6, 5>>
        /\ Column(lRet.Q, LAMBDA r : r.section_time) = <<0, 1, 2, 0, 1, 2, 3, 4>>
        /\ \A i \in 1..Len(lRet.Q) : lRet.Q[i].Q0 = 9
        /\ \A i, j \in 1..Len(lRet.Q) :
              (lRet.Q[i].section_id = lRet.Q[j].section_id) <=> ((i <= 3) <=> (j <= 3))

C1_Witness ==
    /\ pc = "done"
    /\ IsScenarioCall
    /\ Len(lRet.Q) = 8

\* the rows of a table that lie in section sid
RowsIn(rows, sid) == {k \in 1..Len(rows) : rows[k].section_id = sid}

\* C11: before the filtering every row of the cleaned series lies in exactly one
\* segment; the first row opens segment 1, a row of the sign class of the row
\* before it stays in that row's segment and a row of another sign class opens
\* the next segment, so that segments are contiguous runs of one sign class,
\* neighbouring segments differ in sign class and together the segments hold
\* every row of the cleaned series.
C11_SegmentsPartition ==
    (pc = "done" /\ lRet.raised = "none") =>
        LET rows == lRet.sections
            cleaned == clean_gauge_ts(lArgs.Q).Q
        IN /\ Len(rows) = Len(cleaned)
           /\ \A i \in 1..Len(rows) :
                 /\ rows[i].t = cleaned[i].t
                 /\ rows[i].diff \in {0 - 1, 0, 1}
                 /\ i = 1 => rows[i].section_id = 1
                 /\ i > 1 => rows[i].section_id =
                                IF rows[i].diff = rows[i - 1].diff
                                THEN rows[i - 1].section_id
                                ELSE rows[i - 1].section_id + 1
           /\ \A i, j \in 1..Len(rows) :
                 (rows[i].section_id = rows[j].section_id) => rows[i].diff = rows[j].diff

\* a series of four rows that rises, falls and rises again has four segments
C11_Witness ==
    /\ pc = "done"
    /\ lRet.raised = "none"
    /\ Len(lRet.sections) = 4
    /\ [i \in 1..4 |-> lRet.sections[i].diff] = <<0, 1, 0 - 1, 1>>
    /\ lRet.sections[4].section_id = 4

\* C12: every row of the output is a falling row of a segment that has at least
\* minimum_recession_curve_length rows, all of which are in the output; a row
\* of the cleaned series is in the output exactly if it is a falling row of a
\* segment of at least that many rows, so a segment of exactly the minimum is
\* kept, one of a row less is dropped and no rising or flat row is kept.
C12_OutputSegments ==
    (pc = "done" /\ lRet.raised = "none") =>
        LET rows == lRet.sections
            out == lRet.Q
            most == lArgs.minimum_recession_curve_length
        IN /\ \A k \in 1..Len(out) :
                 /\ out[k].diff = 0 - 1
                 /\ out[k].section_length >= most
                 /\ out[k].section_length = Cardinality(RowsIn(out, out[k].section_id))
                 /\ out[k].section_length = Cardinality(RowsIn(rows, out[k].section_id))
           /\ \A i \in 1..Len(rows) :
                 (rows[i].diff = 0 - 1
                  /\ Cardinality(RowsIn(rows, rows[i].section_id)) >= most)
                 <=> (\E k \in 1..Len(out) :
                         out[k].t = rows[i].t /\ out[k].Q = rows[i].Q
                         /\ out[k].section_id = rows[i].section_id)

\* with a minimum of 2 the falling run of two rows is kept, with its two rows
C12_Witness ==
    /\ pc = "done"
    /\ lRet.raised = "none"
    /\ lArgs.minimum_recession_curve_length = 2
    /\ Len(lRet.sections) = 4
    /\ Len(lRet.Q) = 2
    /\ lRet.Q[1].section_length = 2
    /\ \E i \in 1..4 : lRet.sections[i].diff = 1

\* C18: on every row of the output Q0 is the largest value of the row's segment,
\* which is the value of the segment's row of relative time 0; this holds as
\* well when the output has exactly one segment.
C18_AsStated ==
    (pc = "done" /\ lRet.raised = "none") =>
        \A k \in 1..Len(lRet.Q) :
            /\ lRet.Q[k].Q0 = group_max(lRet.Q, lRet.Q[k].section_id)
            /\ \A j \in RowsIn(lRet.Q, lRet.Q[k].section_id) :
                  lRet.Q[j].section_time = 0 => lRet.Q[k].Q0 = lRet.Q[j].Q

\* the row of the cleaned series at time t is in the output
InOutput(out, t) == \E k \in 1..Len(out) : out[k].t = t

\* C22: a row whose value repeats the value of the row before it is of a sign
\* class of its own: it is in no limb of the output, the falling rows before it
\* and the falling rows after it have different segment ids, and a falling row
\* is in the output exactly if the falling run it lies in, which ends at the
\* repeated value, has the minimum length by itself.
C22_FlatRowSplits ==
    (pc = "done" /\ lRet.raised = "none") =>
        LET rows == lRet.sections
            most == lArgs.minimum_recession_curve_length
        IN \A i \in 2..Len(rows) :
              (~isna(rows[i].Q) /\ rows[i].Q = rows[i - 1].Q) =>
                 /\ rows[i].diff = 0
                 /\ ~InOutput(lRet.Q, rows[i].t)
                 /\ \A j \in 1..(i - 1), k \in (i + 1)..Len(rows) :
                       (rows[j].diff = 0 - 1 /\ rows[k].diff = 0 - 1) =>
                          /\ rows[j].section_id # rows[k].section_id
                          /\ RowsIn(rows, rows[j].section_id) \subseteq 1..(i - 1)
                          /\ RowsIn(rows, rows[k].section_id) \subseteq (i + 1)..Len(rows)
                          /\ InOutput(lRet.Q, rows[j].t)
                                <=> Cardinality(RowsIn(rows, rows[j].section_id)) >= most
                          /\ InOutput(lRet.Q, rows[k].t)
                                <=> Cardinality(RowsIn(rows, rows[k].section_id)) >= most

\* the series 3, 2, 2, 1 with a minimum of 1 gives two limbs of one row each
C22_Witness ==
    /\ pc = "done"
    /\ lRet.raised = "none"
    /\ Column(lArgs.Q, LAMBDA r : r.Q) = <<3, 2, 2, 1>>
    /\ lArgs.minimum_recession_curve_length = 1
    /\ Column(lRet.Q, LAMBDA r : r.t) = <<2, 4>>
    /\ lRet.Q[1].section_id # lRet.Q[2].section_id

\* C23: within every segment of the output the relative time of the rows, in
\* time order, is 0, 1, ..., L-1 with L the number of rows of the segment, and
\* two rows of the output that have the same segment id lie in one falling run:
\* every row of the cleaned series between them is in the output with that id.
C23_RelativeTime ==
    (pc = "done" /\ lRet.raised = "none") =>
        LET out == lRet.Q
        IN /\ \A k \in 1..Len(out) :
                 /\ out[k].section_time \in 0..(Cardinality(RowsIn(out, out[k].section_id)) - 1)
                 /\ (k = 1 \/ out[k - 1].section_id # out[k].section_id)
                       => out[k].section_time = 0
                 /\ (k > 1 /\ out[k - 1].section_id = out[k].section_id)
                       => out[k].section_time = out[k - 1].section_time + 1
                 /\ (k = Len(out) \/ out[k + 1].section_id # out[k].section_id)
                       => out[k].section_time = Cardinality(RowsIn(out, out[k].section_id)) - 1
           /\ \A k, m \in 1..Len(out) :
                 k < m => out[k].t < out[m].t
           /\ \A k, m \in 1..Len(out) :
                 (k < m /\ out[k].section_id = out[m].section_id) =>
                     /\ out[m].t - out[k].t = m - k
                     /\ \A j \in k..m : out[j].section_id = out[k].section_id

\* a segment of three rows and one of five rows are in the output
C23_Witness ==
    /\ pc = "done"
    /\ lRet.raised = "none"
    /\ Column(lRet.Q, LAMBDA r : r.section_time) = <<0, 1, 2, 0, 1, 2, 3, 4>>
    /\ lRet.Q[3].section_id # lRet.Q[4].section_id

\* C24: for a positive window size w the smoothing window is odd and the least
\* odd number that is not below w, w itself when w is odd and w + 1 when w is
\* even; for w <= 0 nothing is smoothed and the segments are those of the
\* values of the cleaned series.
C24_SmoothingWindow ==
    /\ \A f \in 1..(4 * MaxLen) :
          /\ round_up_to_odd(f) % 2 = 1
          /\ round_up_to_odd(f) = IF f % 2 = 1 THEN f ELSE f + 1
    /\ pc = "done" =>
          LET w == lArgs.smooth_window_size
              cleaned == clean_gauge_ts(lArgs.Q)
          IN /\ w > 0 =>
                   /\ lRet.window % 2 = 1
                   /\ lRet.window >= w
                   /\ lRet.window - 2 < w
                   /\ lRet.window = IF w % 2 = 1 THEN w ELSE w + 1
             /\ w <= 0 =>
                   /\ lRet.raised = cleaned.raised
                   /\ lRet.raised = "none" =>
                         /\ Len(lRet.sections) = Len(cleaned.Q)
                         /\ \A i \in 1..Len(cleaned.Q) :
                               /\ lRet.sections[i].Q = cleaned.Q[i].Q
                               /\ lRet.sections[i].t = cleaned.Q[i].t

\* a series of four values has been smoothed with the window 3 for the size 2
C24_Witness ==
    /\ pc = "done"
    /\ lArgs.smooth_window_size = 2
    /\ lRet.window = 3
    /\ lRet.raised = "none"
    /\ Len(lRet.sections) = 4

(***************************************************************************)
(* Claims about fit_reservoir_function (SpecFit)                           *)
(***************************************************************************)
Min(a, b) == IF a < b THEN a ELSE b

\* new/previous >= min_improvement_ratio, as a comparison of real numbers
RatioAtLeast(r_cor, r_cor_old) ==
    /\ ~isna(r_cor) /\ ~isna(r_cor_old) /\ r_cor_old # 0
    /\ r_cor_old > 0 => r_cor * 100 >= min_improvement_ratio * r_cor_old
    /\ r_cor_old < 0 => r_cor * 100 <= min_improvement_ratio * r_cor_old

\* new/previous < min_improvement_ratio
RatioBelow(r_cor, r_cor_old) ==
    /\ ~isna(r_cor) /\ ~isna(r_cor_old) /\ r_cor_old # 0
    /\ r_cor_old > 0 => r_cor * 100 < min_improvement_ratio * r_cor_old
    /\ r_cor_old < 0 => r_cor * 100 > min_improvement_ratio * r_cor_old

\* C2: with a requested maximum m only the models of 1..min(m,3) terms are
\* fitted and the accepted term count is at most min(m,3).
C2_AsStated ==
    pc = "done" =>
        LET most == Min(fArgs.no_of_partial_sums, 3)
        IN /\ \A i \in 1..Len(fRet.fits) : fRet.fits[i].terms \in 1..most
           /\ ~fRet.output.empty => fRet.output.reservoirs <= most

\* C3: a model of k >= 2 terms is accepted only if its correlation over the last
\* accepted correlation is at least min_improvement_ratio; at the first k where
\* that ratio is below it the loop stops and the last accepted fit is returned.
C3_AsStated ==
    pc = "done" =>
        \A i \in 1..Len(fRet.fits) :
            LET fit == fRet.fits[i]
            IN (fit.terms >= 2 /\ fit.ok) =>
                  /\ fit.accepted => RatioAtLeast(fit.r_cor, fit.r_cor_old)
                  /\ RatioBelow(fit.r_cor, fit.r_cor_old) =>
                        /\ i = Len(fRet.fits)
                        /\ fRet.raised = "none"
                        /\ fRet.output.reservoirs = fit.terms - 1
                        /\ fRet.output.r_cor = fit.r_cor_old

\* C4: a converged 1-term fit is accepted whatever its correlation, and the
\* function never returns an empty result after it.
C4_AsStated ==
    (pc = "done" /\ Len(fRet.fits) >= 1 /\ fRet.fits[1].ok) =>
        /\ fRet.fits[1].accepted
        /\ fRet.raised = "none" => (~fRet.output.empty /\ fRet.output.reservoirs >= 1)

\* C8 as stated: a request of more than 3 terms fails before anything is fitted.
C8_AsStated ==
    (pc = "done" /\ fArgs.no_of_partial_sums > 3) =>
        (fRet.raised # "none" /\ fRet.fits = <<>>)

\* C8 (amended): a request of more than 3 terms is not rejected; it is reduced
\* to 3 and the call does what a request of 3 does, starting with the fit of
\* the 1-term model.
C8_ReducedToMaximum ==
    (pc = "done" /\ fArgs.no_of_partial_sums > 3) =>
        /\ fRet.no_of_partial_sums = max_sums
        /\ fRet.raised # "ValueError"
        /\ fRet = fit_reservoir_function(fArgs.Q_0, fArgs.constant_Q_0, max_sums,
                                         fArgs.recession_algorithm, fArgs.cf)
        /\ fArgs.recession_algorithm \in model_functions =>
              (Len(fRet.fits) >= 1 /\ fRet.fits[1].terms = 1)

C8_Witness ==
    /\ pc = "done"
    /\ fArgs # NoArgs
    /\ fArgs.no_of_partial_sums = 4
    /\ fRet.raised = "none"
    /\ ~fRet.output.empty
    /\ fRet.output.reservoirs = 3

\* C19: in every fit a call makes, the initial-flow bounds are 0.9999 and 1.0001
\* times the hint if constant_Q_0 is set and the model fitted has exactly one
\* term, and 0.001 and 1000 in every other case (bounds in units of 1/10000).
C19_AsStated ==
    pc = "done" =>
        \A i \in 1..Len(fRet.fits) :
            LET fit == fRet.fits[i]
            IN IF fArgs.constant_Q_0 /\ fit.terms = 1
               THEN fit.Q_0_min = fArgs.Q_0 * 9999 /\ fit.Q_0_max = fArgs.Q_0 * 10001
               ELSE fit.Q_0_min = 10 /\ fit.Q_0_max = 10000000

(***************************************************************************)
(* Claims about analyse_recession_curves (SpecAnalyse)                     *)
(***************************************************************************)
\* the rows of section sid in the table the call hands back
RowsOfSection(sid) == {k \in 1..Len(aRet.Q) : aRet.Q[k].section_id = sid}

\* C6: when curve_fit does not converge on the k-term model, the fitter returns
\* the result accepted for k - 1 terms if k > 1; if k = 1, the analysis goes on
\* without the limb, whose rows are in no table it hands back.
C6_AsStated ==
    pc = "done" =>
        \A i \in 1..Len(aRet.calls) :
            \A j \in 1..Len(aRet.calls[i].res.fits) :
                LET res == aRet.calls[i].res
                    fit == res.fits[j]
                IN ~fit.ok =>
                      IF fit.terms > 1
                      THEN /\ res.raised = "none"
                           /\ ~res.output.empty
                           /\ res.output.reservoirs = fit.terms - 1
                      ELSE /\ aRet.raised = "none"
                           /\ aRet.calls[i].stage = "limb" =>
                                 RowsOfSection(aRet.calls[i].section_id) = {}

SupportedMasterCurves == {"demuth", "matching_strip", "none"}

\* C9: with a recession_algorithm that is neither boussinesq nor maillet, or a
\* mrc_algorithm that is none of demuth, matching_strip and none, the call
\* fails, and it fails before any fit is made, whatever the series.
C9_AsStated ==
    (/\ pc = "done"
     /\ \/ aArgs.recession_algorithm \notin model_functions
        \/ aArgs.mrc_algorithm \notin SupportedMasterCurves) =>
        /\ aRet.raised # "none"
        /\ aRet.calls = <<>>

\* C14: when exactly one limb is eligible, the fit that yields the master curve
\* (the fit of matching_strip, the final fit of demuth) is the fit of that limb
\* over again: the same request with the same bounds on the initial flow, so
\* that its parameters are those recorded for the limb.
C14_AsStated ==
    (/\ pc = "done"
     /\ aRet.raised = "none"
     /\ aArgs.mrc_algorithm \in {"demuth", "matching_strip"}
     /\ Cardinality(SectionIds(aRet.Q)) = 1) =>
        LET limb == aRet.calls[1].res
            master == aRet.calls[Len(aRet.calls)].res
        IN /\ aRet.calls[1].stage = "limb"
           /\ aRet.calls[Len(aRet.calls)].stage \in {"matching_strip", "demuth_final"}
           /\ master.no_of_partial_sums = limb.no_of_partial_sums
           /\ master.fits[1].terms = limb.fits[1].terms
           /\ master.fits[1].Q_0_min = limb.fits[1].Q_0_min
           /\ master.fits[1].Q_0_max = limb.fits[1].Q_0_max

(***************************************************************************)
(* Claims about Model.get_recession_curve (SpecBatch)                      *)
(***************************************************************************)
\* the unit has no falling limb of the minimum length
NoLimbUnit(Q) ==
    LET found == find_recession_limbs(Q, config.moving_average_filter_steps,
                                      config.minimum_recession_curve_length)
    IN found.raised = "none" /\ Len(found.Q) = 0

\* C5: a unit without a falling limb does not end the batch: the loop goes on
\* with the units after it.
C5_AsStated ==
    \A i \in 1..Len(log) :
        NoLimbUnit(log[i].Q) => (pc # "raised" \/ i < Len(log))

\* C7: a unit without a falling limb is recognised and skipped; nothing is
\* added to metrics, recession_limbs and Q_mrcs for it.
C7_AsStated ==
    \A i \in 1..Len(log) :
        NoLimbUnit(log[i].Q) =>
            /\ log[i].outcome = "skipped"
            /\ \A k \in 1..Len(metrics) :
                  <<metrics[k].gauge, metrics[k].decade>> # <<log[i].gauge, log[i].decade>>
            /\ \A k \in 1..Len(recession_limbs) :
                  <<recession_limbs[k].gauge, recession_limbs[k].decade>>
                      # <<log[i].gauge, log[i].decade>>
            /\ \A k \in 1..Len(Q_mrcs) :
                  <<Q_mrcs[k].gauge, Q_mrcs[k].decade>> # <<log[i].gauge, log[i].decade>>

\* C16: when get_recession_curve is over, gauges_meta has the rows it had, with
\* their gauge and decade, and the columns rec_Q0, rec_n and pearson_r; a row
\* holds the master-curve result of the unit of its gauge and decade, and
\* missing values when there is no such result.
C16_AsStated ==
    pc \in {"done", "raised"} =>
        LET before == read_gauges_meta(config, gauge_ts)
        IN /\ Len(gauges_meta) = Len(before)
           /\ \A k \in 1..Len(gauges_meta) :
                 /\ gauges_meta[k].gauge = before[k].gauge
                 /\ gauges_meta[k].decade = before[k].decade
                 /\ gauges_meta[k].has_rec
                 /\ \A j \in 1..Len(metrics) :
                       (metrics[j].gauge = gauges_meta[k].gauge
                        /\ metrics[j].decade = gauges_meta[k].decade)
                       => gauges_meta[k].rec = metrics[j].mrc_out
                 /\ metrics_of(gauges_meta[k], metrics) = {}
                       => gauges_meta[k].rec = mrc_missing

\* the entries of an accumulator that carry the labels of a unit
LabelledAs(list, unit) ==
    {k \in 1..Len(list) : list[k].gauge = unit.gauge /\ list[k].decade = unit.decade}

\* the three accumulators have the same length
SameLength == Len(metrics) = Len(recession_limbs) /\ Len(recession_limbs) = Len(Q_mrcs)

C15_InverseRoundTrip ==
    pc = "done" =>
        /\ iRet.Q.exact
        /\ iRet.t = iArgs.x
        /\ inv_func(iArgs.recession_algorithm, iArgs.Q_0, iArgs.Q_0, iArgs.n) = Real(0, 1)

\* the exponential curve has been inverted at a time after the start
C15_Witness ==
    /\ pc = "done"
    /\ iArgs.recession_algorithm = "maillet"
    /\ iArgs.x = Real(3, 2)
    /\ iArgs.Q_0 = Real(2, 1)
    /\ iRet.Q = Num(Rat(2, 1), Rat(0 - 3, 4))
    /\ iRet.t = Real(3, 2)

(***************************************************************************)
(* Claims about the data of the master curve (SpecMaster)                  *)
(***************************************************************************)
PointSet(points) == {points[k] : k \in 1..Len(points)}

\* the same points, at the same sorted times
SamePool(points, others) ==
    PointSet(points) = PointSet(others) /\ index_of(points) = index_of(others)

\* C13: for the demuth method the points passed to the final fit do not depend
\* on the order in which the limbs are taken: for every permutation of the
\* limbs the pooled (shifted time, value) points are the same set, one for each
\* row of the limbs, and their sorted times are the same sequence.
C13_DemuthOrderFree ==
    (pc = "done" /\ mArgs.mrc_algorithm = "demuth") =>
        /\ Cardinality(PointSet(mRet.df_merged)) = Len(mArgs.Q)
        /\ \A order \in OrdersOf(SectionIds(mArgs.Q)) :
              SamePool(demuth_data(mArgs.Q, order, mArgs.recession_algorithm,
                                   mArgs.rates).df_merged, mRet.df_merged)

\* three limbs of different Q0, the largest not the first, have been pooled,
\* and the sorted series is not in the order in which the limbs were appended
C13_Witness ==
    /\ pc = "done"
    /\ mArgs.mrc_algorithm = "demuth"
    /\ Cardinality(SectionIds(mArgs.Q)) = 3
    /\ Cardinality({mArgs.Q[k].Q0 : k \in 1..Len(mArgs.Q)}) = 3
    /\ limb_rows(mArgs.Q, 2)[1].Q0 # Q0_max_of(mArgs.Q)
    /\ \E k \in 1..Len(mRet.df_merged) - 1 :
          mRet.df_merged[k].obs.section_id > mRet.df_merged[k + 1].obs.section_id
    /\ \E k \in 1..Len(mRet.df_merged) :
          mRet.df_merged[k].t # Real(mRet.df_merged[k].obs.section_time, 1)

\* the Q0 of a section of the limb table
Q0_of(rows, sid) == limb_rows(rows, sid)[1].Q0

\* the shift a section got: the time of its first row in the pooled series
\* less that row's relative time
shift_of(points, sid) ==
    LET k == CHOOSE k \in 1..Len(points) : points[k].obs.section_id = sid
    IN subtract(points[k].t, Real(points[k].obs.section_time, 1))

\* every limb is shifted by the inverse function of its Q0 under Q0_max and the
\* rate of the initial fit; the shift is 0 for a limb of Q0 = Q0_max, is never
\* negative, and is no smaller for a smaller Q0
DemuthShifts ==
    \A sid \in SectionIds(mArgs.Q) :
        /\ \A k \in 1..Len(mRet.df_merged) :
              mRet.df_merged[k].obs.section_id = sid =>
                  mRet.df_merged[k].t =
                      add(Real(mRet.df_merged[k].obs.section_time, 1),
                          shift_of(mRet.df_merged, sid))
        /\ shift_of(mRet.df_merged, sid) =
              inv_func(mArgs.recession_algorithm, Q0_of(mArgs.Q, sid),
                       Q0_max_of(mArgs.Q), mArgs.rates[1])
        /\ IsRational(shift_of(mRet.df_merged, sid))
        /\ Q0_of(mArgs.Q, sid) = Q0_max_of(mArgs.Q)
              => shift_of(mRet.df_merged, sid) = Real(0, 1)
        /\ ~NumLess(shift_of(mRet.df_merged, sid), Real(0, 1))
        /\ \A other \in SectionIds(mArgs.Q) :
              NumLess(Q0_of(mArgs.Q, sid), Q0_of(mArgs.Q, other))
                  => ~NumLess(shift_of(mRet.df_merged, sid), shift_of(mRet.df_merged, other))

\* C21: in the demuth method every limb is shifted by the inverse function of
\* its Q0 under Q0_max and the rate of the initial pooled fit, by 0 when its Q0
\* is Q0_max, never by a negative amount and by no less than a limb of larger
\* Q0; and the final fit is a fit of the one-term model with Q0 held at Q0_max.
C21_AsStated ==
    (pc = "done" /\ mArgs.mrc_algorithm = "demuth") =>
        /\ DemuthShifts
        /\ mRet.final.raised = "none"
        /\ mRet.final.output.reservoirs = 1
        /\ \A k \in 1..Len(mRet.final.fits) :
              /\ mRet.final.fits[k].terms = 1
              /\ mRet.final.fits[k].Q_0_min = multiply(Q0_max_of(mArgs.Q), Real(9999, 10000))
              /\ mRet.final.fits[k].Q_0_max = multiply(Q0_max_of(mArgs.Q), Real(10001, 10000))

\* C20: matching_strip merges the limbs one at a time in non-increasing order
\* of Q0, whatever their order in the input: the first limb fitted has the
\* largest Q0 and is not shifted, and the shift of each later limb is the
\* inverse function of its Q0 under the parameters of the fit made just before
\* it is merged.
C20_MergeOrder ==
    (pc = "done" /\ mArgs.mrc_algorithm = "matching_strip") =>
        /\ mRet.order \in OrdersOf(SectionIds(mArgs.Q))
        /\ Len(mRet.steps) = Len(mRet.order)
        /\ \A i, j \in 1..Len(mRet.order) :
              i < j => ~NumLess(Q0_of(mArgs.Q, mRet.order[i]), Q0_of(mArgs.Q, mRet.order[j]))
        /\ Q0_of(mArgs.Q, mRet.steps[1].section_id) = Q0_max_of(mArgs.Q)
        /\ mRet.steps[1].t_shift = Real(0, 1)
        /\ \A i \in 1..Len(mRet.steps) :
              /\ mRet.steps[i].section_id = mRet.order[i]
              /\ mRet.steps[i].fit_parameter.n = mArgs.rates[i]
              /\ i > 1 =>
                    mRet.steps[i].t_shift =
                        inv_func(mArgs.recession_algorithm, Q0_of(mArgs.Q, mRet.order[i]),
                                 mRet.steps[i - 1].fit_parameter.Q_0,
                                 mRet.steps[i - 1].fit_parameter.n)

\* three limbs given in rising order of Q0 have been merged, and the third
\* shift differs from the one the parameters of the first fit would give
C20_Witness ==
    /\ pc = "done"
    /\ mArgs.mrc_algorithm = "matching_strip"
    /\ mRet.order = <<6, 4, 2>>
    /\ NumLess(Q0_of(mArgs.Q, 2), Q0_of(mArgs.Q, 4))
    /\ NumLess(Q0_of(mArgs.Q, 4), Q0_of(mArgs.Q, 6))
    /\ mRet.steps[3].t_shift #
           inv_func(mArgs.recession_algorithm, Q0_of(mArgs.Q, 2),
                    mRet.steps[1].fit_parameter.Q_0, mRet.steps[1].fit_parameter.n)

\* the shifted relative time of an observation: its section_time plus the
\* shift of the step that merged its limb
aligned_time(steps, obs) ==
    add(Real(obs.section_time, 1),
        steps[CHOOSE i \in 1..Len(steps) : steps[i].section_id = obs.section_id].t_shift)

\* the (aligned time, observed value) pair of a row of the limb table
aligned_pair(steps, row) == [t |-> aligned_time(steps, observation(row)), Q |-> row.Q]

\* how often the series holds the value Q at the time t
pair_count(points, pair) ==
    Cardinality({k \in 1..Len(points) : points[k].t = pair.t /\ points[k].obs.Q = pair.Q})

\* the rows of the limbs merged in the first i steps
merged_rows(rows, order, i) ==
    SelectSeq(rows, LAMBDA row : \E j \in 1..i : row.section_id = order[j])

\* the series is the pairs of the rows, each as often as the rows have it
PairsOf(steps, points, rows) ==
    /\ Len(points) = Len(rows)
    /\ \A k \in 1..Len(rows) :
          pair_count(points, aligned_pair(steps, rows[k]))
              = Cardinality({j \in 1..Len(rows) :
                                aligned_pair(steps, rows[j]) = aligned_pair(steps, rows[k])})

\* C17: in matching_strip the merged series is, after every merge step, the
\* (aligned time, observed value) pairs of the limbs merged so far: every value
\* is paired with the shifted relative time of its own point, in the data of
\* every re-fit and in the data of the final correlation r_mrc.
C17_AsStated ==
    (pc = "done" /\ mArgs.mrc_algorithm = "matching_strip") =>
        /\ \A i \in 1..Len(mRet.steps) :
              PairsOf(mRet.steps, mRet.steps[i].df_merged, merged_rows(mArgs.Q, mRet.order, i))
        /\ PairsOf(mRet.steps, mRet.final, mArgs.Q)


(***************************************************************************)
(* Claims about Model._read_data (SpecRead)                                *)
(***************************************************************************)
has_missing_column(table) ==
    \E k \in 1..Len(table) : \E i \in 1..Len(table[k].Q) : isna(table[k].Q[i].Q)

\* with rows in the table, a missing entry in a row is a missing entry in a column
has_missing_time_step(table) == has_missing_column(table)

\* C25: after _read_data with drop_na_axis = 1 no column of gauge_ts has a
\* missing entry, and with drop_na_axis = 0 no time step of gauge_ts has one.
\* The code calls dropna and drops its result, so this fails.
C25_AsStated ==
    pc = "done" /\ rRet # NoArgs =>
        /\ rArgs.drop_na_axis = 1 => ~has_missing_column(rRet.gauge_ts)
        /\ rArgs.drop_na_axis = 0 => ~has_missing_time_step(rRet.gauge_ts)

\* the gauges and the decades of a table of metadata
GaugesOf(meta) == {meta[k].gauge : k \in 1..Len(meta)}
DecadesOf(args) == args.start_date..args.end_date

combination_count(meta, gauge, decade) ==
    Cardinality({k \in 1..Len(meta) : meta[k].gauge = gauge /\ meta[k].decade = decade})

\* C27: after _read_data with compute_each_decade, gauges_meta has G*D rows
\* that hold every combination of a gauge and a decade exactly once, for every
\* G and D.  The code repeats both lists in step, so this fails when G and D
\* have a common divisor.
C27_AsStated ==
    pc = "done" /\ rRet # NoArgs /\ rArgs.compute_each_decade =>
        /\ Len(rRet.gauges_meta) = Cardinality(GaugesOf(rRet.gauges_meta)) * Cardinality(DecadesOf(rArgs))
        /\ \A gauge \in GaugesOf(rRet.gauges_meta) : \A decade \in DecadesOf(rArgs) :
               combination_count(rRet.gauges_meta, gauge, decade) = 1


(***************************************************************************)
(* Claims about the methods of Model and main (SpecModel)                  *)
(***************************************************************************)
Events == 1..Len(trace)

on_baseflow == sbat.config.curve_type = "hydrograph" /\ sbat.config.flow_type = "baseflow"

\* the baseflow is not computed by a call of get_recession_curve that finds a
\* result
NotRecomputed ==
    \A i \in Events :
        trace[i].op = "get_recession_curve" /\ trace[i].arg # "empty" =>
            \A j \in Events : trace[j].call = trace[i].call => trace[j].op # "get_baseflow"

\* bf_output is read only after it has been updated
ReadAfterUpdate ==
    \A k \in Events :
        trace[k].op = "bf_output[]" => \E j \in 1..(k - 1) : trace[j].op = "bf_output.update"

\* a call of get_recession_curve that finds no result computes the baseflow of
\* gauge_ts and then reads bf_daily
ComputedFirst ==
    \A i \in Events :
        trace[i].op = "get_recession_curve" /\ trace[i].arg = "empty" =>
            \E j, k \in Events :
                /\ i < j /\ j < k
                /\ trace[j].call = trace[i].call /\ trace[k].call = trace[i].call
                /\ trace[j].op = "get_baseflow" /\ trace[j].arg = "gauge_ts"
                /\ trace[k].op = "bf_output[]" /\ trace[k].arg = "bf_daily"

\* C26: with the recession on the baseflow of the hydrograph, get_recession_curve
\* without a baseflow result first separates the baseflow of the gauge time
\* series and then reads bf_daily, bf_daily is never read before it is
\* populated, and the baseflow is not recomputed when there is a result.  The
\* code calls get_baseflow without the time series, so the first part fails.
C26_AsStated ==
    run.stage # "new" /\ on_baseflow => ComputedFirst /\ ReadAfterUpdate /\ NotRecomputed

\* the two parts of it that hold
BaseflowKept == run.stage # "new" /\ on_baseflow => ReadAfterUpdate /\ NotRecomputed

water_balance_runs == Cardinality({i \in Events : trace[i].op = "get_water_balance"})

C30_NoOutput ==
    run.stage # "new" /\ ~run.output =>
        /\ disk = LogFiles
        /\ ~sbat.config.plot_results
        /\ \A i \in Events : trace[i].op # "Plotter"

\* the configuration asked for plots, and the discharge statistics, the baseflow
\* and, by get_recession_curve, the water balance have been computed
C30_Witness ==
    /\ run.stage # "new" /\ ~run.output /\ run.conf.plot_results
    /\ disk = LogFiles
    /\ \E i, j, k, l \in Events :
           /\ trace[i].op = "get_discharge_stats"
           /\ trace[j].op = "bf_output.update"
           /\ trace[k].op = "get_recession_curve"
           /\ trace[l].op = "get_section_waterbalance" /\ trace[l].call = trace[k].call

====
